---------------------------- MODULE Spec2Model ----------------------------
(***************************************************************************)
(* A model of trimesh-boolean: the pair intersector, the winding           *)
(* propagator, the weld, the boolean entry point, the point and flood      *)
(* classifiers, the spatial grid, the segment chainer, the gap closer and  *)
(* the asynchronous repair pipeline.                                       *)
(*                                                                         *)
(* Numbers.  The program computes in IEEE doubles; the model computes in   *)
(* exact rationals <<n, d>> (d > 0, lowest terms).  Input coordinates are  *)
(* drawn from a small integer lattice, so every quantity the program       *)
(* compares with one of its tolerances (1e-8 .. 1e-15) is either exactly 0 *)
(* or a rational whose size is many orders above the tolerance: a          *)
(* tolerance test "|q| < 1e-10" is therefore written "q = 0".              *)
(* A unit vector v / |v| is carried as the vector v itself; every place    *)
(* that uses it says how the omitted positive factor |v| is accounted for. *)
(***************************************************************************)
EXTENDS Integers, Sequences, FiniteSets, TLC

Abs(i) == IF i < 0 THEN -i ELSE i

RECURSIVE GCD(_, _)
GCD(a, b) == IF b = 0 THEN a ELSE GCD(b, a % b)

\* With(e, LAMBDA x : b) is b with e for x; e is written, and computed, once
With(v, F(_)) == F(v)
With2(v, w, F(_, _)) == F(v, w)
With3(u, v, w, F(_, _, _)) == F(u, v, w)

\* ---- exact rationals -----------------------------------------------------
Norm(n, d) == With(GCD(Abs(n), d), LAMBDA g : <<n \div g, d \div g>>)

R(i) == <<i, 1>>
RZero == <<0, 1>>
RAdd(p, q) ==
    With(GCD(p[2], q[2]), LAMBDA g :
        Norm(p[1] * (q[2] \div g) + q[1] * (p[2] \div g), (p[2] \div g) * q[2]))
RNeg(p) == <<-p[1], p[2]>>
RSub(p, q) == RAdd(p, RNeg(q))
\* the factors are cancelled crosswise before they are multiplied
RMul(p, q) ==
    With2(GCD(Abs(p[1]), q[2]), GCD(Abs(q[1]), p[2]), LAMBDA g1, g2 :
        <<(p[1] \div g1) * (q[1] \div g2), (p[2] \div g2) * (q[2] \div g1)>>)
RDiv(p, q) ==
    RMul(p, IF q[1] > 0 THEN <<q[2], q[1]>> ELSE <<-q[2], -q[1]>>)
\* a/b < c/d for integers a, c >= 0 and b, d > 0, by continued fractions (no
\* products, so no overflow whatever the sizes)
RECURSIVE FracLess(_, _, _, _)
FracLess(a, b, c, d) ==
    LET qa == a \div b
        qc == c \div d
        ra == a % b
        rc == c % d
    IN IF qa # qc THEN qa < qc
       ELSE IF rc = 0 THEN FALSE
       ELSE IF ra = 0 THEN TRUE
       ELSE FracLess(d, rc, b, ra)

RLess(p, q) ==
    IF p[1] <= 0 /\ q[1] > 0 THEN TRUE
    ELSE IF p[1] < 0 /\ q[1] = 0 THEN TRUE
    ELSE IF p[1] >= 0 /\ q[1] <= 0 THEN FALSE
    ELSE IF p[1] > 0 THEN FracLess(p[1], p[2], q[1], q[2])
    ELSE FracLess(-q[1], q[2], -p[1], p[2])
RLeq(p, q) == ~RLess(q, p)
RPos(p) == p[1] > 0
RNegative(p) == p[1] < 0
RIsZero(p) == p[1] = 0
RAbs(p) == <<Abs(p[1]), p[2]>>
RMin(p, q) == IF RLess(q, p) THEN q ELSE p
RMax(p, q) == IF RLess(p, q) THEN q ELSE p
\* Math.floor of a rational
RFloor(p) == p[1] \div p[2]

\* ---- vertices, triangles -------------------------------------------------
Vtx(a, b, c) == [x |-> R(a), y |-> R(b), z |-> R(c)]
Tri(a, b, c) == [v0 |-> a, v1 |-> b, v2 |-> c]

VSub(a, b) == [x |-> RSub(a.x, b.x), y |-> RSub(a.y, b.y), z |-> RSub(a.z, b.z)]
Dot(a, b) == RAdd(RAdd(RMul(a.x, b.x), RMul(a.y, b.y)), RMul(a.z, b.z))

\* util/math.js cross
cross(a, b) ==
    [x |-> RSub(RMul(a.y, b.z), RMul(a.z, b.y)),
     y |-> RSub(RMul(a.z, b.x), RMul(a.x, b.z)),
     z |-> RSub(RMul(a.x, b.y), RMul(a.y, b.x))]

IsZeroVec(n) == RIsZero(n.x) /\ RIsZero(n.y) /\ RIsZero(n.z)

\* normals/triNormal.js: (v1-v0) x (v2-v0), the fallback {0,0,1} for a
\* zero-area triangle.  The program divides by the length len > 0; the model
\* keeps the vector of length len.
triNormal(tri) ==
    With(cross(VSub(tri.v1, tri.v0), VSub(tri.v2, tri.v0)), LAMBDA n :
        IF IsZeroVec(n) THEN [x |-> R(0), y |-> R(0), z |-> R(1)] ELSE n)

null == [isNull |-> TRUE]

\* ---- intersect/triTriIntersection.js ---------------------------------------
\* |dotN| > 0.9999 = CoplanarNum / CoplanarDen for the unit normals nA, nB.
CoplanarNum == 9999
CoplanarDen == 10000

\* The test of line 61 on the unnormalised normals NA, NB:
\*   |NA.NB| / (|NA||NB|) > 0.9999  <=>  1 - (NA.NB)^2 / (|NA|^2 |NB|^2) < 1 - 0.9999^2
Square(p) == RMul(p, p)

NearParallel(NA, NB) ==
    With(RSub(R(1), RDiv(Square(Dot(NA, NB)), RMul(Dot(NA, NA), Dot(NB, NB)))),
         LAMBDA rest :
            IF rest[1] <= 0 THEN TRUE
            ELSE FracLess(rest[1], rest[2],
                          CoplanarDen * CoplanarDen - CoplanarNum * CoplanarNum,
                          CoplanarDen * CoplanarDen))

\* findLinePoint(nA, dA, nB, dB, lineDir): the dominant component of lineDir is
\* set to 0 and the 2x2 system solved by Cramer's rule.  Every quotient is
\* unchanged when nA, dA are scaled by |NA| and nB, dB by |NB|, and the choice of
\* the dominant axis is unchanged when lineDir is scaled.
findLinePoint(nA, dA, nB, dB, lineDir) ==
    With3(RAbs(lineDir.x), RAbs(lineDir.y), RAbs(lineDir.z), LAMBDA ax, ay, az :
       IF RLeq(ax, az) /\ RLeq(ay, az) THEN
            With(RSub(RMul(nA.x, nB.y), RMul(nA.y, nB.x)), LAMBDA det :
               IF RIsZero(det) THEN null
               ELSE [x |-> RDiv(RAdd(RMul(RNeg(dA), nB.y), RMul(dB, nA.y)), det),
                     y |-> RDiv(RSub(RMul(nA.x, RNeg(dB)), RMul(nB.x, RNeg(dA))), det),
                     z |-> RZero])
       ELSE IF RLeq(ax, ay) THEN
            With(RSub(RMul(nA.x, nB.z), RMul(nA.z, nB.x)), LAMBDA det :
               IF RIsZero(det) THEN null
               ELSE [x |-> RDiv(RAdd(RMul(RNeg(dA), nB.z), RMul(dB, nA.z)), det),
                     y |-> RZero,
                     z |-> RDiv(RSub(RMul(nA.x, RNeg(dB)), RMul(nB.x, RNeg(dA))), det)])
       ELSE
            With(RSub(RMul(nA.y, nB.z), RMul(nA.z, nB.y)), LAMBDA det :
               IF RIsZero(det) THEN null
               ELSE [x |-> RZero,
                     y |-> RDiv(RAdd(RMul(RNeg(dA), nB.z), RMul(dB, nA.z)), det),
                     z |-> RDiv(RSub(RMul(nA.y, RNeg(dB)), RMul(nB.y, RNeg(dA))), det)]))

TriVerts(tri) == <<tri.v0, tri.v1, tri.v2>>

\* The parameters pushed by one pass i of the loop of computeTriInterval
\* (lines 197-218): the crossing of edge i -> j, or vertex i when it lies on the
\* plane.  lineDir is the unnormalised direction, so each parameter is |lineDir|
\* times the program's; the order of the parameters is the same.
Lerp(a, b, t) == RAdd(a, RMul(t, RSub(b, a)))

EdgeParams(verts, dists, i, lineDir, linePoint) ==
    With3((i % 3) + 1, dists[i], dists[(i % 3) + 1], LAMBDA j, di, dj :
       IF (RPos(di) /\ RNegative(dj)) \/ (RNegative(di) /\ RPos(dj)) THEN
            With(RDiv(di, RSub(di, dj)), LAMBDA t :
                <<Dot(VSub([x |-> Lerp(verts[i].x, verts[j].x, t),
                            y |-> Lerp(verts[i].y, verts[j].y, t),
                            z |-> Lerp(verts[i].z, verts[j].z, t)], linePoint), lineDir)>>)
       ELSE IF RIsZero(di) THEN <<Dot(VSub(verts[i], linePoint), lineDir)>>
       ELSE <<>>)

\* the minimum and the maximum of the parameters (params.sort, first and last),
\* null with fewer than two
IntervalOf(params) ==
    IF Len(params) < 2 THEN null
    ELSE IF Len(params) = 2
         THEN [min |-> RMin(params[1], params[2]), max |-> RMax(params[1], params[2])]
    ELSE [min |-> RMin(params[1], RMin(params[2], params[3])),
          max |-> RMax(params[1], RMax(params[2], params[3]))]

\* computeTriInterval: the three passes of the loop, then the interval
computeTriInterval(tri, lineDir, linePoint, d0, d1, d2) ==
    With([i \in 1..3 |-> EdgeParams(TriVerts(tri), <<d0, d1, d2>>, i, lineDir, linePoint)],
         LAMBDA pushed : IntervalOf(pushed[1] \o pushed[2] \o pushed[3]))

AllPos(a, b, c) == RPos(a) /\ RPos(b) /\ RPos(c)
AllNeg(a, b, c) == RNegative(a) /\ RNegative(b) /\ RNegative(c)

\* The 3-D point linePoint + u * param of lines 89-98, u the unit direction:
\* with the unnormalised lineDir and the scaled parameter s = |lineDir| * param
\* this is linePoint + lineDir * s / |lineDir|^2.
PointAt(linePoint, lineDir, s) ==
    With(RDiv(s, Dot(lineDir, lineDir)), LAMBDA k :
       [x |-> RAdd(linePoint.x, RMul(lineDir.x, k)),
        y |-> RAdd(linePoint.y, RMul(lineDir.y, k)),
        z |-> RAdd(linePoint.z, RMul(lineDir.z, k))])

\* the coplanar reject of lines 59-61
CoplanarRejectNever(nA, nB) == FALSE

CoplanarRejectExact(nA, nB) == IsZeroVec(cross(nA, nB))

CoplanarReject(nA, nB) == NearParallel(nA, nB)

\* triTriIntersection(triA, triB): the segment {p0, p1} or null.
\* the signed distances of the vertices of tri to the plane (n, d)
PlaneDistances(tri, n, d) == [k \in 1..3 |-> RAdd(Dot(n, TriVerts(tri)[k]), d)]

SameSide(dist) ==
    AllPos(dist[1], dist[2], dist[3]) \/ AllNeg(dist[1], dist[2], dist[3])

\* lines 83-102: the overlap of the two intervals and the segment it gives
OverlapSegment(intervalA, intervalB, linePoint, lineDir) ==
    With2(RMax(intervalA.min, intervalB.min), RMin(intervalA.max, intervalB.max),
          LAMBDA overlapMin, overlapMax :
             IF RLeq(overlapMax, overlapMin) THEN null
             ELSE With2(PointAt(linePoint, lineDir, overlapMin),
                        PointAt(linePoint, lineDir, overlapMax),
                        LAMBDA p0, p1 : IF p0 = p1 THEN null ELSE [p0 |-> p0, p1 |-> p1]))

\* lines 64-86: the line of the two planes and the two intervals on it
OnLine(triA, triB, nA, dA, nB, dB, distA, distB) ==
    With(cross(nA, nB), LAMBDA lineDir :
    IF IsZeroVec(lineDir) THEN null ELSE
    With(findLinePoint(nA, dA, nB, dB, lineDir), LAMBDA linePoint :
    IF linePoint = null THEN null ELSE
    With(computeTriInterval(triA, lineDir, linePoint, distA[1], distA[2], distA[3]),
         LAMBDA intervalA :
    IF intervalA = null THEN null ELSE
    With(computeTriInterval(triB, lineDir, linePoint, distB[1], distB[2], distB[3]),
         LAMBDA intervalB :
    IF intervalB = null THEN null
    ELSE OverlapSegment(intervalA, intervalB, linePoint, lineDir)))))

\* triTriIntersection(triA, triB): the segment {p0, p1} or null.
triTriIntersection(triA, triB) ==
    With(triNormal(triB), LAMBDA nB :
    With(RNeg(Dot(nB, triB.v0)), LAMBDA dB :
    With(PlaneDistances(triA, nB, dB), LAMBDA distA :
    IF SameSide(distA) THEN null ELSE
    With(triNormal(triA), LAMBDA nA :
    With(RNeg(Dot(nA, triA.v0)), LAMBDA dA :
    With(PlaneDistances(triB, nA, dA), LAMBDA distB :
    IF SameSide(distB) THEN null
    ELSE IF CoplanarReject(nA, nB) THEN null
    ELSE OnLine(triA, triB, nA, dA, nB, dB, distA, distB)))))))

\* lines 150-155: the overlap of the two intervals and its length.  The
\* parameters are |lineDir| times the program's, so the square of the program's
\* segLen is (overlapMax - overlapMin)^2 / |lineDir|^2.
OverlapLength(intervalA, intervalB, lineDir, distA, distB) ==
    With2(RMax(intervalA.min, intervalB.min), RMin(intervalA.max, intervalB.max),
          LAMBDA overlapMin, overlapMax :
             IF RLeq(overlapMax, overlapMin) THEN null
             ELSE With(RDiv(Square(RSub(overlapMax, overlapMin)), Dot(lineDir, lineDir)),
                       LAMBDA segLenSq :
                          IF RIsZero(segLenSq) THEN null
                          ELSE [dA |-> distA, dB |-> distB, segLenSq |-> segLenSq]))

\* lines 137-155: the line of the two planes and the two intervals on it
OnLineDetailed(triA, triB, nA, dA, nB, dB, distA, distB) ==
    With(cross(nA, nB), LAMBDA lineDir :
    IF IsZeroVec(lineDir) THEN null ELSE
    With(findLinePoint(nA, dA, nB, dB, lineDir), LAMBDA linePoint :
    IF linePoint = null THEN null ELSE
    With(computeTriInterval(triA, lineDir, linePoint, distA[1], distA[2], distA[3]),
         LAMBDA intervalA :
    IF intervalA = null THEN null ELSE
    With(computeTriInterval(triB, lineDir, linePoint, distB[1], distB[2], distB[3]),
         LAMBDA intervalB :
    IF intervalB = null THEN null
    ELSE OverlapLength(intervalA, intervalB, lineDir, distA, distB)))))

\* triTriIntersectionDetailed(triA, triB): {dA, dB, segLen} or null.  dA and dB
\* are the signed distances to the planes of the unnormalised normals (the
\* program's times the length of the normal, with the same signs); segLen is
\* carried as its square.
triTriIntersectionDetailed(triA, triB) ==
    With(triNormal(triB), LAMBDA nB :
    With(RNeg(Dot(nB, triB.v0)), LAMBDA dB :
    With(PlaneDistances(triA, nB, dB), LAMBDA distA :
    IF SameSide(distA) THEN null ELSE
    With(triNormal(triA), LAMBDA nA :
    With(RNeg(Dot(nA, triA.v0)), LAMBDA dA :
    With(PlaneDistances(triB, nA, dA), LAMBDA distB :
    IF SameSide(distB) THEN null
    ELSE IF CoplanarReject(nA, nB) THEN null
    ELSE OnLineDetailed(triA, triB, nA, dA, nB, dB, distA, distB)))))))

\* ---- util/math.js, intersect/spatialGrid.js --------------------------------
\* the largest k in lo..hi with k * k <= n
RECURSIVE ISqrt(_, _, _)
ISqrt(n, lo, hi) ==
    IF lo >= hi THEN lo
    ELSE LET mid == (lo + hi + 1) \div 2
         IN IF mid * mid <= n THEN ISqrt(n, mid, hi) ELSE ISqrt(n, lo, mid - 1)

\* dist3(a, b) = Math.sqrt(dx*dx + dy*dy + dz*dz), in fixed point: the result is
\* the number of hundredths, rounded down.  Only estimateAvgEdge uses it, to
\* size the cells of a grid.
dist3(a, b) ==
    With(VSub(a, b), LAMBDA d :
    With(Dot(d, d), LAMBDA q : ISqrt((q[1] * 10000) \div q[2], 0, 2000)))

Min3(a, b, c) == RMin(a, RMin(b, c))
Max3(a, b, c) == RMax(a, RMax(b, c))

triBBox(tri) ==
    [minX |-> Min3(tri.v0.x, tri.v1.x, tri.v2.x),
     minY |-> Min3(tri.v0.y, tri.v1.y, tri.v2.y),
     minZ |-> Min3(tri.v0.z, tri.v1.z, tri.v2.z),
     maxX |-> Max3(tri.v0.x, tri.v1.x, tri.v2.x),
     maxY |-> Max3(tri.v0.y, tri.v1.y, tri.v2.y),
     maxZ |-> Max3(tri.v0.z, tri.v1.z, tri.v2.z)]

bboxOverlap(a, b) ==
    /\ RLeq(a.minX, b.maxX) /\ RLeq(b.minX, a.maxX)
    /\ RLeq(a.minY, b.maxY) /\ RLeq(b.minY, a.maxY)
    /\ RLeq(a.minZ, b.maxZ) /\ RLeq(b.minZ, a.maxZ)

\* computeBBox(tris) of a soup with at least one triangle
RECURSIVE computeBBox(_)
computeBBox(tris) ==
    With(triBBox(tris[Len(tris)]), LAMBDA b :
       IF Len(tris) = 1 THEN b
       ELSE With(computeBBox(SubSeq(tris, 1, Len(tris) - 1)), LAMBDA r :
               [minX |-> RMin(r.minX, b.minX), minY |-> RMin(r.minY, b.minY),
                minZ |-> RMin(r.minZ, b.minZ), maxX |-> RMax(r.maxX, b.maxX),
                maxY |-> RMax(r.maxY, b.maxY), maxZ |-> RMax(r.maxZ, b.maxZ)]))

\* the sum of the three edge lengths of the first count triangles (hundredths)
RECURSIVE EdgeTotal(_, _)
EdgeTotal(tris, count) ==
    IF count = 0 THEN 0
    ELSE LET t == tris[count]
         IN EdgeTotal(tris, count - 1)
            + dist3(t.v0, t.v1) + dist3(t.v1, t.v2) + dist3(t.v2, t.v0)

SampleMax == 100

estimateAvgEdge(tris) ==
    IF Len(tris) = 0 THEN R(1)
    ELSE LET count == IF Len(tris) < SampleMax THEN Len(tris) ELSE SampleMax
         IN Norm(EdgeTotal(tris, count), 100 * count * 3)

\* Math.max(avgEdge * 2, 0.1)
CellSizeOf(tris) == RMax(RMul(estimateAvgEdge(tris), R(2)), <<1, 10>>)

\* Math.floor(c / cellSize)
CellOf(c, cellSize) == RFloor(RDiv(c, cellSize))

\* the cells "gx,gy" that the box bb overlaps
CellsOfBox(bb, cellSize) ==
    (CellOf(bb.minX, cellSize) .. CellOf(bb.maxX, cellSize))
        \X (CellOf(bb.minY, cellSize) .. CellOf(bb.maxY, cellSize))

\* a grid that bins every triangle in the cell of its box's minimum corner only
buildSpatialGridMinCell(tris, cellSize) ==
    With([i \in 1..Len(tris) |-> <<CellOf(triBBox(tris[i]).minX, cellSize),
                                    CellOf(triBBox(tris[i]).minY, cellSize)>>],
         LAMBDA cellOfTri :
            [cells |-> [k \in {cellOfTri[i] : i \in 1..Len(tris)} |->
                          SelectSeq([i \in 1..Len(tris) |-> i], LAMBDA i : k = cellOfTri[i])]])

\* buildSpatialGrid(tris, cellSize): a bucket per touched cell; triangle i is
\* pushed in the loop over i, so every bucket lists its triangles in
\* ascending order.  Triangles are numbered from 1 (the program: from 0).
buildSpatialGrid(tris, cellSize) ==
    With([i \in 1..Len(tris) |-> CellsOfBox(triBBox(tris[i]), cellSize)], LAMBDA boxCells :
        [cells |-> [k \in UNION {boxCells[i] : i \in 1..Len(tris)} |->
                      SelectSeq([i \in 1..Len(tris) |-> i], LAMBDA i : k \in boxCells[i])]])

\* an inner loop that pushes every index of the cell
PushAll(result, cell, c) == result \o cell

\* the inner loop of queryGrid (lines 175-181): push the indices not yet seen
RECURSIVE PushUnseen(_, _, _)
PushUnseen(result, cell, c) ==
    IF c > Len(cell) THEN result
    ELSE IF \E r \in 1..Len(result) : result[r] = cell[c]
         THEN PushUnseen(result, cell, c + 1)
         ELSE PushUnseen(Append(result, cell[c]), cell, c + 1)

\* the two outer loops of queryGrid, gx from x0 to x1 and gy from y0 to y1
RECURSIVE QueryLoop(_, _, _, _, _, _, _)
QueryLoop(grid, gx, gy, x1, y0, y1, result) ==
    IF gx > x1 THEN result
    ELSE IF gy > y1 THEN QueryLoop(grid, gx + 1, y0, x1, y0, y1, result)
    ELSE IF <<gx, gy>> \notin DOMAIN grid.cells
         THEN QueryLoop(grid, gx, gy + 1, x1, y0, y1, result)
         ELSE QueryLoop(grid, gx, gy + 1, x1, y0, y1,
                        PushUnseen(result, grid.cells[<<gx, gy>>], 1))

\* a query that looks into the cell of the box's minimum corner only
queryGridFirstCell(grid, bb, cellSize) ==
    With(<<CellOf(bb.minX, cellSize), CellOf(bb.minY, cellSize)>>, LAMBDA k :
        IF k \in DOMAIN grid.cells THEN grid.cells[k] ELSE <<>>)

queryGrid(grid, bb, cellSize) ==
    LET x0 == CellOf(bb.minX, cellSize)
        y0 == CellOf(bb.minY, cellSize)
    IN QueryLoop(grid, x0, y0, CellOf(bb.maxX, cellSize), y0,
                 CellOf(bb.maxY, cellSize), <<>>)

\* ---- intersect/intersectMeshPair.js ----------------------------------------
\* the loop over the candidates of triangle i (lines 82-89)
RECURSIVE CandidateLoop(_, _, _, _, _)
CandidateLoop(trisA, trisB, i, candidates, c) ==
    IF c > Len(candidates) THEN <<>>
    ELSE With3(candidates[c], triTriIntersection(trisA[i], trisB[candidates[c]]),
               CandidateLoop(trisA, trisB, i, candidates, c + 1),
               LAMBDA j, seg, rest :
                  IF seg = null THEN rest
                  ELSE <<[p0 |-> seg.p0, p1 |-> seg.p1, idxA |-> i, idxB |-> j]>> \o rest)

RECURSIVE PairLoop(_, _, _, _, _)
PairLoop(trisA, trisB, gridB, cellSize, i) ==
    IF i > Len(trisA) THEN <<>>
    ELSE CandidateLoop(trisA, trisB, i,
                       queryGrid(gridB, triBBox(trisA[i]), cellSize), 1)
         \o PairLoop(trisA, trisB, gridB, cellSize, i + 1)

intersectMeshPairTagged(trisA, trisB) ==
    With(CellSizeOf(trisB), LAMBDA cellSize :
        PairLoop(trisA, trisB, buildSpatialGrid(trisB, cellSize), cellSize, 1))

\* ---- normals/alignNormals.js ------------------------------------------------
\* a copy that turns the triangle over by exchanging v0 and v1
FlipFirstTwo(tri) == [v0 |-> tri.v1, v1 |-> tri.v0, v2 |-> tri.v2]

\* the copy of tri with v1 and v2 exchanged
Flip(tri) == [v0 |-> tri.v0, v1 |-> tri.v2, v2 |-> tri.v1]

\* n.z < -0.01 for the unit normal n = N / |N|:  N.z < 0 and N.z^2 > 0.0001 |N|^2
FacesDown(tri) ==
    With(triNormal(tri), LAMBDA N :
       /\ RNegative(N.z)
       /\ RLess(Dot(N, N), RMul(R(10000), RMul(N.z, N.z))))

\* an orientation that swaps every triangle whose normal has a negative z
ensureZUpNormalsStrict(tris) ==
    [i \in 1..Len(tris) |-> IF RNegative(triNormal(tris[i]).z) THEN Flip(tris[i]) ELSE tris[i]]

ensureZUpNormals(tris) ==
    [i \in 1..Len(tris) |-> IF FacesDown(tris[i]) THEN Flip(tris[i]) ELSE tris[i]]

\* ---- boolean/booleanOp.js: propagateNormals -----------------------------------
\* Number.prototype.toFixed(6): the sign and the digits of |c| rounded to six
\* decimals (half away from zero); a negative c that rounds to zero keeps its
\* sign ("-0.000000")
toFixed6(c) ==
    <<IF c[1] < 0 THEN "-" ELSE "", (2 * Abs(c[1]) * 1000000 + c[2]) \div (2 * c[2])>>

vk(v) == <<toFixed6(v.x), toFixed6(v.y), toFixed6(v.z)>>

\* the half-edges in the order the loops of lines 49-68 push them: half-edge h
\* is edge (h - 1) % 3 of triangle (h - 1) \div 3 + 1
HalfEdge(tris, h) ==
    With2(((h - 1) \div 3) + 1, (h - 1) % 3, LAMBDA i, e :
        [triIdx |-> i, from |-> vk(TriVerts(tris[i])[e + 1]),
         to |-> vk(TriVerts(tris[i])[((e + 1) % 3) + 1])])

\* the sorted key "ka|kb" of a half-edge: the two keys without their order
SortedKey(he) == {he.from, he.to}

\* edgeToTris: for every sorted key, in the order the keys were first inserted,
\* the half-edges pushed under it
edgeToTris(tris) ==
    With2(3 * Len(tris), [h \in 1..(3 * Len(tris)) |-> HalfEdge(tris, h)], LAMBDA n, hes :
    With(SelectSeq([h \in 1..n |-> h],
                   LAMBDA h : \A g \in 1..(h - 1) : SortedKey(hes[g]) # SortedKey(hes[h])),
         LAMBDA first :
            [k \in 1..Len(first) |->
                With(SelectSeq([h \in 1..n |-> h],
                               LAMBDA h : SortedKey(hes[h]) = SortedKey(hes[first[k]])),
                     LAMBDA under : [u \in 1..Len(under) |-> hes[under[u]]])]))

isManifold(edges) == \A k \in 1..Len(edges) : Len(edges[k]) = 2

\* the neighbor lists of lines 85-101: for every edge, in order, one entry
\* pushed on the list of each of its two triangles
RECURSIVE BuildNeighbors(_, _, _)
BuildNeighbors(edges, k, neighbors) ==
    IF k > Len(edges) THEN neighbors
    ELSE LET t0 == edges[k][1]
             t1 == edges[k][2]
             same == (t0.from = t1.from)
             n1 == [neighbors EXCEPT ![t0.triIdx] =
                        Append(@, [neighbor |-> t1.triIdx, sameDirection |-> same])]
             n2 == [n1 EXCEPT ![t1.triIdx] =
                        Append(@, [neighbor |-> t0.triIdx, sameDirection |-> same])]
         IN BuildNeighbors(edges, k + 1, n2)

\* the loop over the neighbors of cur (lines 114-131)
RECURSIVE VisitNeighbors(_, _, _, _)
VisitNeighbors(nbrs, n, cur, st) ==
    IF n > Len(nbrs) THEN st
    ELSE LET nb == nbrs[n]
         IN IF nb.neighbor \in st.visited THEN VisitNeighbors(nbrs, n + 1, cur, st)
            ELSE VisitNeighbors(nbrs, n + 1, cur,
                    [visited |-> st.visited \cup {nb.neighbor},
                     flipped |-> IF nb.sameDirection = (cur \in st.flipped)
                                 THEN st.flipped
                                 ELSE st.flipped \cup {nb.neighbor},
                     queue |-> Append(st.queue, nb.neighbor)])

\* the breadth-first search from the seed (lines 108-132)
RECURSIVE BFS(_, _, _)
BFS(neighbors, head, st) ==
    IF head > Len(st.queue) THEN st
    ELSE LET cur == st.queue[head]
         IN BFS(neighbors, head + 1, VisitNeighbors(neighbors[cur], 1, cur, st))

propagateNormals(tris) ==
    IF Len(tris) = 0 THEN tris
    ELSE With(edgeToTris(tris), LAMBDA edges :
            IF ~isManifold(edges) THEN ensureZUpNormals(tris)
            ELSE With(BFS(BuildNeighbors(edges, 1, [i \in 1..Len(tris) |-> <<>>]), 1,
                          [visited |-> {1}, flipped |-> {}, queue |-> <<1>>]),
                      LAMBDA st : [i \in 1..Len(tris) |->
                                     IF i \in st.flipped THEN Flip(tris[i]) ELSE tris[i]]))

\* flipSoup(tris)
flipSoup(tris) == [i \in 1..Len(tris) |-> Flip(tris[i])]

\* ---- repair/weldVertices.js, repair/deduplicateVertices.js ---------------------
\* the grid cell of a point: Math.floor of each coordinate over the cell size
Cell3(v, cellSize) == <<CellOf(v.x, cellSize), CellOf(v.y, cellSize), CellOf(v.z, cellSize)>>

\* offset number k (1..27) of the three nested loops dx, dy, dz = -1..1
Offset3(k) == <<((k - 1) \div 9) - 1, (((k - 1) \div 3) % 3) - 1, ((k - 1) % 3) - 1>>

\* the registered points that the 27-cell search around v visits, in the order
\* it visits them: cell by cell, and within a cell in the order of registration
InCell(points, cellSize, home, k) ==
    SelectSeq([c \in 1..Len(points) |-> c],
              LAMBDA c : Cell3(points[c], cellSize)
                         = <<home[1] + Offset3(k)[1], home[2] + Offset3(k)[2],
                             home[3] + Offset3(k)[3]>>)

RECURSIVE Visit(_, _, _, _)
Visit(points, cellSize, home, k) ==
    IF k = 0 THEN <<>>
    ELSE Visit(points, cellSize, home, k - 1) \o InCell(points, cellSize, home, k)

VisitOrder(points, v, cellSize) == Visit(points, cellSize, Cell3(v, cellSize), 27)

DistSq(a, b) == With(VSub(a, b), LAMBDA d : Dot(d, d))

\* a search that looks in the cell of v only
getOrAddPointHomeCell(points, v, cellSize, tolSq) ==
    With(SelectSeq(InCell(points, cellSize, Cell3(v, cellSize), 14),
                   LAMBDA c : RLeq(DistSq(points[c], v), tolSq)),
         LAMBDA near :
            IF Len(near) > 0 THEN [idx |-> near[1], points |-> points]
            ELSE [idx |-> Len(points) + 1, points |-> Append(points, v)])

\* getOrAddPoint(v) of weldVertices: the first visited point within the
\* tolerance, else v is registered as a new point.  The result is the index
\* and the points after the call.
getOrAddPoint(points, v, cellSize, tolSq) ==
    With(SelectSeq(VisitOrder(points, v, cellSize),
                   LAMBDA c : RLeq(DistSq(points[c], v), tolSq)),
         LAMBDA near :
            IF Len(near) > 0 THEN [idx |-> near[1], points |-> points]
            ELSE [idx |-> Len(points) + 1, points |-> Append(points, v)])

\* the three calls getOrAddPoint(tri.v0), (tri.v1), (tri.v2) of lines 76-78,
\* from corner k on: the three indices and the points after them
RECURSIVE WeldCorners(_, _, _, _, _, _)
WeldCorners(tri, k, points, idx, cellSize, tolSq) ==
    IF k > 3 THEN [idx |-> idx, points |-> points]
    ELSE With(getOrAddPoint(points, TriVerts(tri)[k], cellSize, tolSq), LAMBDA r :
            WeldCorners(tri, k + 1, r.points, Append(idx, r.idx), cellSize, tolSq))

\* the loop of lines 74-89 from triangle i2 on
RECURSIVE WeldLoop(_, _, _, _, _, _)
WeldLoop(tris, i2, points, triangles, cellSize, tolSq) ==
    IF i2 > Len(tris) THEN [points |-> points, triangles |-> triangles]
    ELSE With(WeldCorners(tris[i2], 1, points, <<>>, cellSize, tolSq), LAMBDA r :
            IF r.idx[1] = r.idx[2] \/ r.idx[2] = r.idx[3] \/ r.idx[1] = r.idx[3]
            THEN WeldLoop(tris, i2 + 1, r.points, triangles, cellSize, tolSq)
            ELSE WeldLoop(tris, i2 + 1, r.points,
                          Append(triangles, [vertices |-> <<r.points[r.idx[1]],
                                                            r.points[r.idx[2]],
                                                            r.points[r.idx[3]]>>]),
                          cellSize, tolSq))

\* a weld that pushes the triangle once for each of its three points
weldVerticesPerPoint(tris, tolerance) ==
    [points |-> [k \in 1..(3 * Len(tris)) |-> TriVerts(tris[((k - 1) \div 3) + 1])[((k - 1) % 3) + 1]],
     triangles |-> [k \in 1..(3 * Len(tris)) |-> [vertices |-> TriVerts(tris[((k - 1) \div 3) + 1])]]]

\* weldVertices(tris, tolerance): with tolerance <= 0 three points and one
\* triangle per input triangle, nothing merged and nothing dropped
weldVertices(tris, tolerance) ==
    IF RLeq(tolerance, RZero) THEN
        [points |-> [k \in 1..(3 * Len(tris)) |-> TriVerts(tris[((k - 1) \div 3) + 1])[((k - 1) % 3) + 1]],
         triangles |-> [i \in 1..Len(tris) |-> [vertices |-> TriVerts(tris[i])]]]
    ELSE WeldLoop(tris, 1, <<>>, <<>>, RMax(RMul(tolerance, R(2)), <<2, 1000>>),
                  RMul(tolerance, tolerance))

weldedToSoup(weldedTriangles) ==
    [i \in 1..Len(weldedTriangles) |->
        Tri(weldedTriangles[i].vertices[1], weldedTriangles[i].vertices[2],
            weldedTriangles[i].vertices[3])]

\* the scan of findOrRegister (lines 41-58): the visited vertex nearest to v
\* among those strictly nearer than best, the earliest visited on a tie; 0 if none
RECURSIVE BestVert(_, _, _, _, _, _)
BestVert(canonical, order, b, v, bestDist, bestVert) ==
    IF b > Len(order) THEN bestVert
    ELSE With(DistSq(canonical[order[b]], v), LAMBDA dSq :
            IF RLess(dSq, bestDist)
            THEN BestVert(canonical, order, b + 1, v, dSq, order[b])
            ELSE BestVert(canonical, order, b + 1, v, bestDist, bestVert))

\* findOrRegister(vx, vy, vz): the canonical vertex (by its index: the program
\* compares the objects by identity) and the canonical list after the call
findOrRegister(canonical, v, tolerance) ==
    With(BestVert(canonical, VisitOrder(canonical, v, RMul(tolerance, R(3))), 1, v,
                  RMul(tolerance, tolerance), 0),
         LAMBDA best :
            IF best # 0 THEN [idx |-> best, canonical |-> canonical]
            ELSE [idx |-> Len(canonical) + 1, canonical |-> Append(canonical, v)])

\* the three calls findOrRegister of one triangle, from corner k on: the three
\* canonical vertices and the canonical list after them
RECURSIVE DedupCorners(_, _, _, _, _)
DedupCorners(tri, k, canonical, idx, tolerance) ==
    IF k > 3 THEN [idx |-> idx, canonical |-> canonical]
    ELSE With(findOrRegister(canonical, TriVerts(tri)[k], tolerance), LAMBDA c :
            DedupCorners(tri, k + 1, c.canonical, Append(idx, c.idx), tolerance))

RECURSIVE DedupLoop(_, _, _, _, _)
DedupLoop(tris, i, canonical, out, tolerance) ==
    IF i > Len(tris) THEN out
    ELSE With(DedupCorners(tris[i], 1, canonical, <<>>, tolerance), LAMBDA c :
            IF c.idx[1] = c.idx[2] \/ c.idx[2] = c.idx[3] \/ c.idx[3] = c.idx[1]
            THEN DedupLoop(tris, i + 1, c.canonical, out, tolerance)
            ELSE DedupLoop(tris, i + 1, c.canonical,
                           Append(out, Tri(c.canonical[c.idx[1]], c.canonical[c.idx[2]],
                                           c.canonical[c.idx[3]])),
                           tolerance))

deduplicateSeamVertices(tris, tolerance) ==
    IF Len(tris) = 0 THEN tris ELSE DedupLoop(tris, 1, <<>>, <<>>, tolerance)

\* ---- intersect/chainSegments.js ---------------------------------------------------
\* The endpoints in the order of lines 72-79: entry 2i - 1 is {segIdx: i, endIdx: 0}
\* and entry 2i is {segIdx: i, endIdx: 1}.  Segments are numbered from 1.
EndpointList(segments) ==
    [k \in 1..(2 * Len(segments)) |->
        IF k % 2 = 1 THEN segments[(k + 1) \div 2].p0 ELSE segments[k \div 2].p1]

\* the matched end itself
SameEnd(segments, k) == EndpointList(segments)[k]

\* lines 134-138: the other end of the segment whose entry k matched
OtherEnd(segments, k) ==
    IF k % 2 = 1 THEN segments[(k + 1) \div 2].p1 ELSE segments[k \div 2].p0

\* findNearest(queryPt, -1): the entry of the nearest endpoint of an unused
\* segment strictly nearer than the threshold, the first visited on a tie; 0
\* for null.  The 27 cells are visited in the order of nearbyKeys, a bucket in
\* the order of its entries.
findNearest(segments, used, queryPt, threshold) ==
    BestVert(EndpointList(segments),
             SelectSeq(VisitOrder(EndpointList(segments), queryPt, RMul(threshold, R(2))),
                       LAMBDA k : ((k + 1) \div 2) \notin used),
             1, queryPt, RMul(threshold, threshold), 0)

\* one of the loops of lines 125-141 and 144-159: the points pushed after the
\* point from, and the segments used
RECURSIVE Extend(_, _, _, _, _)
Extend(segments, used, from, pushed, threshold) ==
    With(findNearest(segments, used,
                     IF Len(pushed) > 0 THEN pushed[Len(pushed)] ELSE from, threshold),
         LAMBDA match :
            IF match = 0 THEN [used |-> used, pushed |-> pushed]
            ELSE Extend(segments, used \cup {(match + 1) \div 2}, from,
                        Append(pushed, OtherEnd(segments, match)), threshold))

Reverse(seq) == [k \in 1..Len(seq) |-> seq[Len(seq) + 1 - k]]

\* a seed that is left unmarked
SeedLeftUnused(used, s) == used

\* line 118: the seed segment is marked used before it is extended
SeedUsed(used, s) == used \cup {s}

\* the loop of lines 116-169 from segment s on
RECURSIVE ChainLoop(_, _, _, _, _)
ChainLoop(segments, s, used, polylines, threshold) ==
    IF s > Len(segments) THEN polylines
    ELSE IF s \in used THEN ChainLoop(segments, s + 1, used, polylines, threshold)
    ELSE With(Extend(segments, SeedUsed(used, s), segments[s].p1, <<>>, threshold), LAMBDA tail :
         With(Extend(segments, tail.used, segments[s].p0, <<>>, threshold), LAMBDA head :
            ChainLoop(segments, s + 1, head.used,
                      Append(polylines,
                             Reverse(head.pushed) \o <<segments[s].p0, segments[s].p1>>
                                 \o tail.pushed),
                      threshold)))

\* chainSegments(segments, threshold) for a positive threshold
chainSegments(segments, threshold) ==
    IF Len(segments) = 0 THEN <<>> ELSE ChainLoop(segments, 1, {}, <<>>, threshold)

\* a loop that never sets accumulated back to 0
RECURSIVE SimplifyLoopNoReset(_, _, _, _, _)
SimplifyLoopNoReset(points, i, result, accumulated, spacing) ==
    IF i > Len(points) - 1 THEN result
    ELSE With(accumulated + dist3(points[i - 1], points[i]), LAMBDA acc :
            SimplifyLoopNoReset(points, i + 1,
                                IF RLeq(spacing, <<acc, 100>>) THEN Append(result, points[i])
                                ELSE result, acc, spacing))

\* the loop of lines 192-198 from point i on (points are numbered from 1);
\* accumulated is in hundredths, as dist3 is
RECURSIVE SimplifyLoop(_, _, _, _, _)
SimplifyLoop(points, i, result, accumulated, spacing) ==
    IF i > Len(points) - 1 THEN result
    ELSE With(accumulated + dist3(points[i - 1], points[i]), LAMBDA acc :
            IF RLeq(spacing, <<acc, 100>>)
            THEN SimplifyLoop(points, i + 1, Append(result, points[i]), 0, spacing)
            ELSE SimplifyLoop(points, i + 1, result, acc, spacing))

\* simplifyPolyline(points, spacing): the array returned, and whether it is the
\* array that was handed in
simplifyPolyline(points, spacing) ==
    IF Len(points) <= 2 \/ RLeq(spacing, RZero) THEN [points |-> points, isInput |-> TRUE]
    ELSE [points |-> Append(SimplifyLoop(points, 2, <<points[1]>>, 0, spacing),
                            points[Len(points)]),
          isInput |-> FALSE]

\* ---- boolean/closeBoundary.js: generateClosingTriangles --------------------------
\* ka < kb of edgeKey: the two vertex keys compared as strings.  The soups
\* closed here have coordinates in [0, 10): every toFixed(6) then has one digit
\* before the point, and the order of the strings is the order of the numbers,
\* coordinate by coordinate.
KeyLess(ka, kb) ==
    \/ ka[1][2] < kb[1][2]
    \/ ka[1][2] = kb[1][2] /\ ka[2][2] < kb[2][2]
    \/ ka[1][2] = kb[1][2] /\ ka[2][2] = kb[2][2] /\ ka[3][2] < kb[3][2]

\* edgeKey(ka, kb) = "ka|kb" with the smaller key first; split("|") gives the
\* two keys back
edgeKey(ka, kb) == IF KeyLess(ka, kb) THEN <<ka, kb>> ELSE <<kb, ka>>

\* the edge keys counted by the loop of lines 138-149, in the order counted
CountedEdges(tris) ==
    [h \in 1..(3 * Len(tris)) |->
        With(HalfEdge(tris, h), LAMBDA he : edgeKey(he.from, he.to))]

\* edgeMap after lines 138-149, read as (edgeMap[ek] || 0)
EdgeMapOf(tris) ==
    With(CountedEdges(tris), LAMBDA counted :
    With({vk(TriVerts(tris[i])[e]) : i \in 1..Len(tris), e \in 1..3}, LAMBDA keys :
        [ek \in {edgeKey(ka, kb) : ka \in keys, kb \in keys} |->
            Cardinality({h \in 1..Len(counted) : counted[h] = ek})]))

\* boundaryEdges (lines 152-159): the keys of edgeMap whose count is 1, in the
\* order of their insertion
boundaryEdgesOf(tris) ==
    With(CountedEdges(tris), LAMBDA counted :
        SelectSeq(counted, LAMBDA ek :
            Cardinality({h \in 1..Len(counted) : counted[h] = ek}) = 1))

\* vertPos (line 144) as the list of its values in the order of
\* Object.keys(vertPos): a key is listed where it was first written and holds
\* the vertex last written under it
vertPos(tris) ==
    With([h \in 1..(3 * Len(tris)) |-> TriVerts(tris[((h - 1) \div 3) + 1])[((h - 1) % 3) + 1]],
         LAMBDA vs :
    With(SelectSeq([h \in 1..Len(vs) |-> h],
                   LAMBDA h : \A g \in 1..(h - 1) : vk(vs[g]) # vk(vs[h])),
         LAMBDA first :
            [k \in 1..Len(first) |->
                vs[CHOOSE h \in 1..Len(vs) :
                       /\ vk(vs[h]) = vk(vs[first[k]])
                       /\ \A g \in (h + 1)..Len(vs) : vk(vs[g]) # vk(vs[h])]]))

\* vertPos[key]
PosOf(points, key) == points[CHOOSE c \in 1..Len(points) : vk(points[c]) = key]

\* mid (lines 189-193)
Mid(v0, v1) ==
    [x |-> RDiv(RAdd(v0.x, v1.x), R(2)), y |-> RDiv(RAdd(v0.y, v1.y), R(2)),
     z |-> RDiv(RAdd(v0.z, v1.z), R(2))]

\* the tests of lines 210-226 on the candidate cv for the boundary edge be;
\* best is the candidate held so far.  triArea < 1e-6 is a cross product of 0.
Accepts(points, be, cv, edgeMap, maxDist, best) ==
    With3(PosOf(points, be[1]), PosOf(points, be[2]), vk(cv), LAMBDA v0, v1, ck :
        /\ ck # be[1] /\ ck # be[2]
        /\ ~RLess(Square(maxDist), DistSq(Mid(v0, v1), cv))
        /\ (best = null \/ RLess(DistSq(Mid(v0, v1), cv), best.distSq))
        /\ edgeMap[edgeKey(be[1], ck)] < 2
        /\ edgeMap[edgeKey(be[2], ck)] < 2
        /\ ~IsZeroVec(cross(VSub(v1, v0), VSub(cv, v0))))

\* the search of lines 196-233 over the vertices of the 27 cells around mid, in
\* the order the loops visit them
RECURSIVE ClosingVertex(_, _, _, _, _, _, _)
ClosingVertex(points, order, b, be, edgeMap, maxDist, best) ==
    IF b > Len(order) THEN best
    ELSE With(points[order[b]], LAMBDA cv :
            ClosingVertex(points, order, b + 1, be, edgeMap, maxDist,
                IF Accepts(points, be, cv, edgeMap, maxDist, best)
                THEN [key |-> vk(cv),
                      distSq |-> DistSq(Mid(PosOf(points, be[1]), PosOf(points, be[2])), cv)]
                ELSE best))

\* the loop of lines 180-247 over the boundary edges: newTris at its end
RECURSIVE ClosingLoop(_, _, _, _, _, _, _)
ClosingLoop(points, maxDist, boundaryEdges, bi, edgeMap, usedEdges, newTris) ==
    IF bi > Len(boundaryEdges) THEN newTris
    ELSE With3(boundaryEdges[bi], PosOf(points, boundaryEdges[bi][1]),
               PosOf(points, boundaryEdges[bi][2]), LAMBDA be, v0, v1 :
        IF be \in usedEdges
        THEN ClosingLoop(points, maxDist, boundaryEdges, bi + 1, edgeMap, usedEdges, newTris)
        ELSE With(ClosingVertex(points,
                                VisitOrder(points, Mid(v0, v1), RMax(maxDist, R(1))),
                                1, be, edgeMap, maxDist, null),
                  LAMBDA best :
            IF best = null
            THEN ClosingLoop(points, maxDist, boundaryEdges, bi + 1, edgeMap, usedEdges,
                             newTris)
            ELSE ClosingLoop(points, maxDist, boundaryEdges, bi + 1,
                     [edgeMap EXCEPT ![edgeKey(be[1], best.key)] = @ + 1,
                                     ![edgeKey(be[2], best.key)] = @ + 1,
                                     ![be] = 2],
                     usedEdges \cup {be},
                     Append(newTris, Tri(v0, v1, PosOf(points, best.key))))))

\* the passes of lines 133-258 (maxPasses = 20): the soup returned
RECURSIVE ClosingPass(_, _, _)
ClosingPass(tris, maxDist, pass) ==
    IF pass >= 20 \/ Len(boundaryEdgesOf(tris)) = 0 THEN tris
    ELSE With(ClosingLoop(vertPos(tris), maxDist, boundaryEdgesOf(tris), 1,
                          EdgeMapOf(tris), {}, <<>>),
              LAMBDA newTris :
                IF Len(newTris) = 0 THEN tris
                ELSE ClosingPass(tris \o newTris, maxDist, pass + 1))

generateClosingTriangles(tris, maxDist) == ClosingPass(tris, maxDist, 0)

\* ---- repair/repairMesh.js ------------------------------------------------------------
\* What repairMesh does is kept as the list of the things it did, in order: a
\* message handed to onProgress, an await of yieldUI(), a call of one of the
\* repair functions.  phase names the step of the pipeline that did it.
Event(kind, phase, what) == [kind |-> kind, phase |-> phase, what |-> what]

\* lines 36-40: the defaults of a missing config
closeModeOf(config) == IF config = null THEN "none" ELSE config.closeMode
removeDegenerateOf(config) == IF config = null THEN TRUE ELSE config.removeDegenerate

\* the strings of lines 52, 57, 62, 69, 76, 91, 101, 125 and 139/146
Message(phase) ==
    CASE phase = "dedup" -> "Deduplicating vertices..."
      [] phase = "tjunction" -> "Resolving T-junctions..."
      [] phase = "weld" -> "Welding vertices..."
      [] phase = "degenerate" -> "Removing degenerate triangles..."
      [] phase = "stitch" -> "Stitching boundaries..."
      [] phase = "cap" -> "Capping boundary loops..."
      [] phase = "cleanup" -> "Cleaning up post-cap mesh..."
      [] phase = "forceclose" -> "Force-closing gaps..."
      [] phase = "complete" -> "Repair complete."

\* progress(msg) (lines 42-44): onProgress is called when it is a function
progress(log, onProgress, phase) ==
    IF onProgress THEN Append(log, Event("progress", phase, Message(phase))) ELSE log

\* "progress(msg); await yieldUI();" at the head of a step.  The variant calls
\* progress and goes on without the await.
AnnounceNoYield(log, onProgress, phase) == progress(log, onProgress, phase)
Announce(log, onProgress, phase) ==
    Append(progress(log, onProgress, phase), Event("yield", phase, "setTimeout"))

\* the calls between the await of a step and the next progress(): found is what
\* the counts and lengths computed on the soup turn out to be
Work(phase, config, found) ==
    CASE phase = "dedup" -> <<"deduplicateSeamVertices">>
      [] phase = "tjunction" -> <<"resolveTJunctions">>
      [] phase = "weld" -> <<"weldVertices", "weldedToSoup">>
      [] phase = "degenerate" -> <<"removeDegenerateTriangles">>
      [] phase = "stitch" -> <<"stitchByProximity", "weldVertices">>
      [] phase = "cap" -> <<"weldedToSoup", "capBoundaryLoopsSequential", "weldVertices">>
      [] phase = "cleanup" ->
            <<"weldedToSoup", "countOpenEdges">>
            \o (IF found.overShared THEN <<"cleanCrossingTriangles">> ELSE <<>>)
            \o (IF removeDegenerateOf(config) THEN <<"removeDegenerateTriangles">> ELSE <<>>)
            \o (IF found.overShared \/ (removeDegenerateOf(config) /\ found.removed)
                THEN <<"weldVertices">> ELSE <<>>)
      [] phase = "forceclose" ->
            <<"weldedToSoup", "countOpenEdges">>
            \o (IF found.openEdges THEN <<"forceCloseIndexedMesh">> ELSE <<>>)
            \o <<"weldedToSoup">>

\* the step that follows the work of a phase: lines 68 and 75 choose
AfterPhase(phase, config) ==
    CASE phase = "dedup" -> "tjunction"
      [] phase = "tjunction" -> "weld"
      [] phase = "weld" /\ removeDegenerateOf(config) -> "degenerate"
      [] phase \in {"weld", "degenerate"} /\ closeModeOf(config) = "stitch" -> "stitch"
      [] phase \in {"weld", "degenerate"} -> "complete"
      [] phase = "stitch" -> "cap"
      [] phase = "cap" -> "cleanup"
      [] phase = "cleanup" -> "forceclose"
      [] phase = "forceclose" -> "complete"

\* the log with the calls of a phase's work appended
RECURSIVE Worked(_, _, _)
Worked(log, phase, calls) ==
    IF calls = <<>> THEN log
    ELSE Worked(Append(log, Event("work", phase, Head(calls))), phase, Tail(calls))

\* lines 139-140 and 144-147: the final weld of the modes that do not stitch,
\* then 'Repair complete.' and the return that resolves the promise
Complete(log, config, onProgress) ==
    Append(progress(IF closeModeOf(config) = "stitch" THEN log
                    ELSE Append(log, Event("work", "final", "weldVertices")),
                    onProgress, "complete"),
           Event("resolve", "complete", "return"))

\* ---- boolean/classifyTriangles.js ----------------------------------------------
\* what a call that throws leaves behind, and what a call that returns leaves
TypeError == [threw |-> TRUE, error |-> "TypeError"]
Returned(v) == [threw |-> FALSE, value |-> v]

\* JITTERS (lines 21-37): three offsets (da, db) per ray axis
JITTERS ==
    [z |-> <<[da |-> <<537, 10000000>>, db |-> <<241, 10000000>>],
             [da |-> <<-319, 10000000>>, db |-> <<673, 10000000>>],
             [da |-> <<157, 10000000>>, db |-> <<-489, 10000000>>]>>,
     x |-> <<[da |-> <<443, 10000000>>, db |-> <<-317, 10000000>>],
             [da |-> <<-261, 10000000>>, db |-> <<559, 10000000>>],
             [da |-> <<189, 10000000>>, db |-> <<371, 10000000>>]>>,
     y |-> <<[da |-> <<-397, 10000000>>, db |-> <<283, 10000000>>],
             [da |-> <<521, 10000000>>, db |-> <<-447, 10000000>>],
             [da |-> <<-173, 10000000>>, db |-> <<613, 10000000>>]>>]

\* the two projection coordinates and the ray coordinate of a point
Project(v, axis) ==
    IF axis = "z" THEN [a |-> v.x, b |-> v.y, r |-> v.z]
    ELSE IF axis = "x" THEN [a |-> v.y, b |-> v.z, r |-> v.x]
    ELSE [a |-> v.x, b |-> v.z, r |-> v.y]

\* one candidate of castRayOnAxis (lines 55-86): TRUE when the ray from
\* (pa, pb, pr) along the axis hits the triangle beyond pr.  The barycentric
\* tolerance 1e-10 is below every non-zero value the lattice inputs produce.
RayHits(pa, pb, pr, tri, axis) ==
    With3(Project(tri.v0, axis), Project(tri.v1, axis), Project(tri.v2, axis),
          LAMBDA q0, q1, q2 :
    With(RAdd(RMul(RSub(q1.b, q2.b), RSub(q0.a, q2.a)),
              RMul(RSub(q2.a, q1.a), RSub(q0.b, q2.b))), LAMBDA d :
    IF RIsZero(d) THEN FALSE ELSE
    With2(RDiv(RAdd(RMul(RSub(q1.b, q2.b), RSub(pa, q2.a)),
                    RMul(RSub(q2.a, q1.a), RSub(pb, q2.b))), d),
          RDiv(RAdd(RMul(RSub(q2.b, q0.b), RSub(pa, q2.a)),
                    RMul(RSub(q0.a, q2.a), RSub(pb, q2.b))), d),
          LAMBDA u, v :
    With(RSub(RSub(R(1), u), v), LAMBDA w :
    IF RNegative(u) \/ RNegative(v) \/ RNegative(w) THEN FALSE
    ELSE RPos(RSub(RAdd(RAdd(RMul(u, q0.r), RMul(v, q1.r)), RMul(w, q2.r)), pr))))))

castRayOnAxis(pa, pb, pr, candidates, otherTris, axis) ==
    Cardinality({c \in 1..Len(candidates) :
                    RayHits(pa, pb, pr, otherTris[candidates[c]], axis)})

\* queryGridOnAxes(grid, pa, pb, cellSize): the indices of the single cell that
\* holds the point (pa, pb)
queryGridOnAxes(grid, pa, pb, cellSize) ==
    With(<<CellOf(pa, cellSize), CellOf(pb, cellSize)>>, LAMBDA k :
        IF k \in DOMAIN grid.cells THEN grid.cells[k] ELSE <<>>)

\* the count of ray j cast from the base position itself, without its offset
JitteredCountNoJitter(base, otherTris, grid, cellSize, axis, j) ==
    castRayOnAxis(base.a, base.b, base.r,
                  IF axis = "z"
                  THEN queryGrid(grid, [minX |-> base.a, maxX |-> base.a,
                                        minY |-> base.b, maxY |-> base.b], cellSize)
                  ELSE queryGridOnAxes(grid, base.a, base.b, cellSize),
                  otherTris, axis)

\* classifyPointOnAxis: 0 = no ray hit anything, 1 = inside, 2 = outside
JitteredCount(base, otherTris, grid, cellSize, axis, j) ==
    With2(RAdd(base.a, JITTERS[axis][j].da), RAdd(base.b, JITTERS[axis][j].db),
          LAMBDA pa, pb :
             castRayOnAxis(pa, pb, base.r,
                           IF axis = "z"
                           THEN queryGrid(grid, [minX |-> pa, maxX |-> pa,
                                                 minY |-> pb, maxY |-> pb], cellSize)
                           ELSE queryGridOnAxes(grid, pa, pb, cellSize),
                           otherTris, axis))

\* a vote that is inside as soon as one ray has an odd count
classifyPointOnAxisAnyOdd(point, otherTris, grid, cellSize, axis) ==
    With([j \in 1..3 |->
             JitteredCount(Project(point, axis), otherTris, grid, cellSize, axis, j)],
         LAMBDA count :
            IF \A j \in 1..3 : count[j] = 0 THEN 0
            ELSE IF \E j \in 1..3 : count[j] % 2 = 1 THEN 1
            ELSE 2)

classifyPointOnAxis(point, otherTris, grid, cellSize, axis) ==
    With([j \in 1..3 |->
             JitteredCount(Project(point, axis), otherTris, grid, cellSize, axis, j)],
         LAMBDA count :
            IF \A j \in 1..3 : count[j] = 0 THEN 0
            ELSE IF Cardinality({j \in 1..3 : count[j] % 2 = 1}) >= 2 THEN 1
            ELSE 2)

\* a vote that returns inside only when at least two axes vote inside
classifyPointMultiAxisMajority(point, otherTris, grids) ==
    Returned(IF Cardinality({axis \in {"z", "x", "y"} :
                    classifyPointOnAxis(point, otherTris,
                        grids[IF axis = "z" THEN "xy" ELSE IF axis = "x" THEN "yz" ELSE "xz"].grid,
                        grids.xy.cellSize, axis) = 1}) >= 2
             THEN 1 ELSE -1)

\* classifyPointMultiAxis(point, otherTris, grids): grids is read as
\* {xy: {grid, cellSize}, yz: ..., xz: ...}; reading grids.xy.grid of an object
\* without the property xy throws a TypeError (line 164)
classifyPointMultiAxis(point, otherTris, grids) ==
    IF "xy" \notin DOMAIN grids THEN TypeError
    ELSE IF "yz" \notin DOMAIN grids THEN TypeError
    ELSE IF "xz" \notin DOMAIN grids THEN TypeError
    ELSE
    With3(classifyPointOnAxis(point, otherTris, grids.xy.grid, grids.xy.cellSize, "z"),
          classifyPointOnAxis(point, otherTris, grids.yz.grid, grids.yz.cellSize, "x"),
          classifyPointOnAxis(point, otherTris, grids.xz.grid, grids.xz.cellSize, "y"),
          LAMBDA zCount, xCount, yCount :
    With2(Cardinality({c \in 1..3 : <<zCount, xCount, yCount>>[c] = 1}),
          Cardinality({c \in 1..3 : <<zCount, xCount, yCount>>[c] = 2}),
          LAMBDA insideVotes, outsideVotes :
             IF insideVotes >= 2 THEN Returned(1)
             ELSE IF outsideVotes >= 1 THEN Returned(-1)
             ELSE IF insideVotes = 1 THEN Returned(1)
             ELSE Returned(-1)))

\* (v0 + v1 + v2) / 3
Centroid(tri) ==
    [x |-> RDiv(RAdd(RAdd(tri.v0.x, tri.v1.x), tri.v2.x), R(3)),
     y |-> RDiv(RAdd(RAdd(tri.v0.y, tri.v1.y), tri.v2.y), R(3)),
     z |-> RDiv(RAdd(RAdd(tri.v0.z, tri.v1.z), tri.v2.z), R(3))]

\* the three sorted edge keys of a triangle
EdgeKeys(tri) ==
    {{vk(tri.v0), vk(tri.v1)}, {vk(tri.v1), vk(tri.v2)}, {vk(tri.v2), vk(tri.v0)}}

\* a flood that also runs through the crossed triangles
RECURSIVE ComponentThroughCrossed(_, _, _)
ComponentThroughCrossed(tris, crossedMap, comp) ==
    With({i \in 1..Len(tris) :
             /\ i \notin comp
             /\ \E c \in comp : EdgeKeys(tris[i]) \cap EdgeKeys(tris[c]) # {}},
         LAMBDA more :
            IF more = {} THEN comp
            ELSE ComponentThroughCrossed(tris, crossedMap, comp \cup more))

\* the non-crossed triangles that the flood fill reaches from the set comp
\* across shared edges (lines 232-244, 266-277)
RECURSIVE Component(_, _, _)
Component(tris, crossedMap, comp) ==
    With({i \in 1..Len(tris) :
             /\ i \notin DOMAIN crossedMap
             /\ i \notin comp
             /\ \E c \in comp : EdgeKeys(tris[i]) \cap EdgeKeys(tris[c]) # {}},
         LAMBDA more :
            IF more = {} THEN comp ELSE Component(tris, crossedMap, comp \cup more))

\* the loop over the seeds (lines 249-279); a throw of the point classifier
\* ends it.  What is returned is result; visited is the set of the triangles
\* that were a seed or were taken from a list of neighbors, as the loop leaves it.
RECURSIVE FloodLoop(_, _, _, _, _, _, _)
FloodLoop(tris, crossedMap, otherTris, otherGrids, seed, visited, res) ==
    IF seed > Len(tris) THEN [threw |-> FALSE, value |-> res, visited |-> visited]
    ELSE IF seed \in visited \/ seed \in DOMAIN crossedMap
         THEN FloodLoop(tris, crossedMap, otherTris, otherGrids, seed + 1, visited, res)
    ELSE With(classifyPointMultiAxis(Centroid(tris[seed]), otherTris, otherGrids),
              LAMBDA seedClass :
            IF seedClass.threw THEN seedClass
            ELSE With(Component(tris, crossedMap, {seed}), LAMBDA comp :
                    FloodLoop(tris, crossedMap, otherTris, otherGrids, seed + 1,
                              visited \cup comp,
                              [i \in 1..Len(tris) |->
                                  IF i \in comp THEN seedClass.value ELSE res[i]])))

\* classifyByFloodFill(tris, crossedMap, otherTris, otherGrids): the
\* classification per triangle, 0 for the crossed ones
classifyByFloodFill(tris, crossedMap, otherTris, otherGrids) ==
    FloodLoop(tris, crossedMap, otherTris, otherGrids, 1, {}, [i \in 1..Len(tris) |-> 0])

\* ---- boolean/splitTriangles.js --------------------------------------------------
\* The barycentric coordinates [u, v, w] that baryCoords gives the projection
\* of p on the plane of tri (weights of v0, v1, v2).  The program computes them
\* in an orthonormal frame of the plane; they do not depend on the frame, and
\* the model solves the same 2x2 system in the frame (v1 - v0, v2 - v0).
BaryOf(tri, p) ==
    With3(VSub(tri.v1, tri.v0), VSub(tri.v2, tri.v0), VSub(p, tri.v0), LAMBDA e1, e2, d :
    With3(Dot(e1, e1), Dot(e1, e2), Dot(e2, e2), LAMBDA g11, g12, g22 :
    With3(Dot(d, e1), Dot(d, e2), RSub(RMul(g11, g22), RMul(g12, g12)), LAMBDA d1, d2, det :
    With2(RDiv(RSub(RMul(d1, g22), RMul(d2, g12)), det),
          RDiv(RSub(RMul(d2, g11), RMul(d1, g12)), det),
          LAMBDA sv, tv : <<RSub(RSub(R(1), sv), tv), sv, tv>>))))

\* the endpoints of the segments, in the order of the loop of lines 118-136
Endpoints(segments) ==
    [k \in 1..(2 * Len(segments)) |->
        IF k % 2 = 1 THEN segments[(k + 1) \div 2].p0 ELSE segments[k \div 2].p1]

\* drops every endpoint whose key an earlier endpoint has (seen[key])
RECURSIVE UniqueKeys(_, _)
UniqueKeys(q, k) ==
    IF k > Len(q) THEN <<>>
    ELSE IF \E g \in 1..(k - 1) : vk(q[g]) = vk(q[k]) THEN UniqueKeys(q, k + 1)
    ELSE <<q[k]>> \o UniqueKeys(q, k + 1)

\* validSteiner: the endpoints whose key is new and that lie inside the triangle
\* (every barycentric coordinate >= BARY_TOL = -1e-4)
validSteiner(tri, segments) ==
    SelectSeq(UniqueKeys(Endpoints(segments), 1), LAMBDA q :
          /\ vk(q) \notin {vk(tri.v0), vk(tri.v1), vk(tri.v2)}
          /\ With(BaryOf(tri, q), LAMBDA bc : \A c \in 1..3 : ~RLess(bc[c], <<-1, 10000>>)))

\* Delaunator and Constrainautor are external: what they answer for the points
\* pts is an input of the model.  "throws": new Delaunator throws; "none": no
\* triangle; "fan": the three triangles that join the first Steiner point to
\* the sides of the parent.
DelaunayAnswers == {"throws", "none", "fan"}

DelaunayTriangles(del) ==
    IF del = "fan" THEN <<<<1, 2, 4>>, <<2, 3, 4>>, <<3, 1, 4>>>> ELSE <<>>

\* the filter of lines 191-214: the centroid inside the parent (each barycentric
\* coordinate >= -1e-6) and the area at least MIN_AREA_RATIO = 1e-8 of the
\* parent's; a ratio of areas is the determinant of the barycentric coordinates
KeepSub(tri, pa, pb, pc) ==
    With([k \in 1..3 |-> BaryOf(tri, <<pa, pb, pc>>[k])], LAMBDA b :
       /\ \A c \in 1..3 :
             ~RLess(RDiv(RAdd(RAdd(b[1][c], b[2][c]), b[3][c]), R(3)), <<-1, 1000000>>)
       /\ ~RLess(RAbs(RSub(RMul(RSub(b[2][2], b[1][2]), RSub(b[3][3], b[1][3])),
                           RMul(RSub(b[3][2], b[1][2]), RSub(b[2][3], b[1][3])))),
                 <<1, 100000000>>))

\* What the constraining of the segment edges (lines 171-185) can come to:
\* "ok", "initThrows" (new Constrainautor throws), "constrainThrows" (a
\* constrainOne throws).  Both throws are caught.
ConstrainOutcomes == {"ok", "initThrows", "constrainThrows"}

\* del.triangles as step 4 reads it.  A throw of lines 171-185 is caught and
\* the triangulation is used as it is.  The variant has a throw leave no
\* triangle.
delTrisLostOnThrow(del, con) == IF con = "ok" THEN DelaunayTriangles(del) ELSE <<>>
delTris(del, con) == DelaunayTriangles(del)

\* retriangulateWithSteinerPoints(tri, segments), del and con the external
\* answers: the sub-triangles, or <<tri>> on every failure
retriangulateCDT(tri, segments, del, con) ==
    IF Len(segments) = 0 THEN <<tri>>
    ELSE IF tri.v1 = tri.v0 THEN <<tri>>
    ELSE IF IsZeroVec(cross(VSub(tri.v1, tri.v0), VSub(tri.v2, tri.v0))) THEN <<tri>>
    ELSE With(validSteiner(tri, segments), LAMBDA steiner :
            IF Len(steiner) = 0 THEN <<tri>>
            ELSE IF del = "throws" THEN <<tri>>
            ELSE With(<<tri.v0, tri.v1, tri.v2>> \o steiner, LAMBDA pts :
                 With(SelectSeq(delTris(del, con), LAMBDA t :
                                   KeepSub(tri, pts[t[1]], pts[t[2]], pts[t[3]])),
                      LAMBDA kept :
                         IF Len(kept) = 0 THEN <<tri>>
                         ELSE [k \in 1..Len(kept) |->
                                 Tri(pts[kept[k][1]], pts[kept[k][2]], pts[kept[k][3]])])))

\* the same with the constraining left out of the account: what it comes to
\* does not change the triangles the model is given
retriangulateWithSteinerPoints(tri, segments, del) ==
    retriangulateCDT(tri, segments, del, "ok")

\* ---- boolean/classifyTriangles.js: splitStraddlingAndClassify ------------------
\* vertexClassMap (lines 315-328): the class of the first non-crossed triangle
\* that has a vertex with this key; 0 stands for undefined
vertexClass(tris, classifications, crossedMap, key) ==
    With({i \in 1..Len(tris) :
             i \notin DOMAIN crossedMap
             /\ key \in {vk(tris[i].v0), vk(tris[i].v1), vk(tris[i].v2)}},
         LAMBDA owners :
            IF owners = {} THEN 0
            ELSE classifications[CHOOSE i \in owners : \A o \in owners : i <= o])

\* steinerKeys (lines 332-339)
steinerKeys(crossedMap) ==
    UNION {UNION {{vk(crossedMap[ci][g].p0), vk(crossedMap[ci][g].p1)}
                     : g \in 1..Len(crossedMap[ci])}
              : ci \in DOMAIN crossedMap}

\* a search that takes the class of the first vertex with a stored class, an
\* endpoint of a segment or not
RECURSIVE foundClassFromAnyVertex(_, _, _, _, _)
foundClassFromAnyVertex(tris, classifications, crossedMap, subVerts, sv) ==
    IF sv > 3 THEN 0
    ELSE With(vertexClass(tris, classifications, crossedMap, vk(subVerts[sv])),
              LAMBDA adjClass :
                 IF adjClass # 0 THEN adjClass
                 ELSE foundClassFromAnyVertex(tris, classifications, crossedMap, subVerts,
                                              sv + 1))

\* the class found for a sub-triangle by vertex adjacency (lines 363-373), 0 if
\* no vertex qualifies
RECURSIVE foundClassFrom(_, _, _, _, _)
foundClassFrom(tris, classifications, crossedMap, subVerts, sv) ==
    IF sv > 3 THEN 0
    ELSE IF vk(subVerts[sv]) \in steinerKeys(crossedMap)
         THEN foundClassFrom(tris, classifications, crossedMap, subVerts, sv + 1)
    ELSE With(vertexClass(tris, classifications, crossedMap, vk(subVerts[sv])),
              LAMBDA adjClass :
                 IF adjClass # 0 THEN adjClass
                 ELSE foundClassFrom(tris, classifications, crossedMap, subVerts, sv + 1))

\* the loop over the sub-triangles of one crossed triangle (lines 357-394)
RECURSIVE SubLoop(_, _, _, _, _, _, _, _)
SubLoop(tris, classifications, crossedMap, otherTris, otherGrids, current, j, groups) ==
    IF j > Len(current) THEN Returned(groups)
    ELSE With2(current[j],
               foundClassFrom(tris, classifications, crossedMap, TriVerts(current[j]), 1),
               LAMBDA sub, adj :
         With(IF adj # 0 THEN Returned(adj)
              ELSE classifyPointMultiAxis(Centroid(sub), otherTris, otherGrids),
              LAMBDA found :
            IF found.threw THEN found
            ELSE SubLoop(tris, classifications, crossedMap, otherTris, otherGrids, current,
                         j + 1,
                         IF found.value = 1
                         THEN [groups EXCEPT !.inside = Append(@, sub)]
                         ELSE [groups EXCEPT !.outside = Append(@, sub)])))

\* the loop over the triangles (lines 342-395)
RECURSIVE SplitLoop(_, _, _, _, _, _, _, _)
SplitLoop(tris, classifications, crossedMap, otherTris, otherGrids, del, ti, groups) ==
    IF ti > Len(tris) THEN Returned(groups)
    ELSE IF ti \notin DOMAIN crossedMap
         THEN SplitLoop(tris, classifications, crossedMap, otherTris, otherGrids, del, ti + 1,
                        IF classifications[ti] = 1
                        THEN [groups EXCEPT !.inside = Append(@, tris[ti])]
                        ELSE [groups EXCEPT !.outside = Append(@, tris[ti])])
    ELSE With(SubLoop(tris, classifications, crossedMap, otherTris, otherGrids,
                      retriangulateWithSteinerPoints(tris[ti], crossedMap[ti], del),
                      1, groups),
              LAMBDA after :
                 IF after.threw THEN after
                 ELSE SplitLoop(tris, classifications, crossedMap, otherTris, otherGrids,
                                del, ti + 1, after.value))

splitStraddlingAndClassify(tris, classifications, crossedMap, otherTris, otherGrids, del) ==
    SplitLoop(tris, classifications, crossedMap, otherTris, otherGrids, del, 1,
              [inside |-> <<>>, outside |-> <<>>])

\* ---- boolean/booleanOp.js: boolean -------------------------------------------------
\* an array handed to boolean by reference; a missing argument is null
Ref(tris) == [tris |-> tris]

\* the guard of line 199
EmptyInputMissingOnly(soupA, soupB) == soupA = null \/ soupB = null

EmptyInput(soupA, soupB) ==
    \/ soupA = null
    \/ soupB = null
    \/ Len(soupA.tris) = 0
    \/ Len(soupB.tris) = 0

\* the record {soup, points, triangles} of lines 218-219 and 299-305
Welded(soup, tolerance) ==
    With(weldVertices(soup, tolerance), LAMBDA welded :
        [soup |-> soup, points |-> welded.points, triangles |-> welded.triangles])

\* a no-intersection branch that takes "subtract" for "union"
NoIntersectionConcat(soupA, soupB, operation) ==
    IF operation = "intersect" THEN null ELSE Welded(soupA \o soupB, RZero)

\* an array method that appends to the array it is called on
concatInPlace(receiver, other) ==
    [returned |-> receiver \o other, receiver |-> receiver \o other]

\* Array.prototype.concat (line 210) and slice (line 216): the array returned,
\* a new one, and the array the method was called on, which keeps its elements
concat(receiver, other) == [returned |-> receiver \o other, receiver |-> receiver]

slice(receiver) == [returned |-> receiver, receiver |-> receiver]

\* the branch of lines 206-220: no segment was found
NoIntersection(soupA, soupB, operation) ==
    IF operation = "intersect" THEN null
    ELSE Welded(IF operation = "union" THEN concat(soupA, soupB).returned
                ELSE slice(soupA).returned, RZero)

\* The two arrays handed to boolean as the call leaves them.  The only array
\* methods called on them are concat and slice (lines 210, 216); weldVertices
\* reads the coordinates of their triangles into new objects; with a segment
\* the call throws in the classification, before any later step has run.
inputsAfter(soupA, soupB, operation) ==
    IF EmptyInput(soupA, soupB) THEN <<soupA, soupB>>
    ELSE IF Len(intersectMeshPairTagged(soupA.tris, soupB.tris)) # 0 THEN <<soupA, soupB>>
    ELSE IF operation = "union"
         THEN <<Ref(concat(soupA.tris, soupB.tris).receiver), soupB>>
    ELSE IF operation = "intersect" THEN <<soupA, soupB>>
    ELSE <<Ref(slice(soupA.tris).receiver), soupB>>

\* the triangles of an array handed over, none for a missing one
TrisOf(ref) == IF ref = null THEN <<>> ELSE ref.tris

\* crossedSetA and crossedSetB (lines 223-231): the segments of every crossed
\* triangle, in the order of the list
crossedSet(taggedSegments, fieldName) ==
    [i \in {taggedSegments[k][fieldName] : k \in 1..Len(taggedSegments)} |->
        SelectSeq(taggedSegments, LAMBDA g : g[fieldName] = i)]

\* steps 6 and 7 on one group (lines 251-260)
DedupAndPropagate(tris) ==
    With(IF Len(tris) > 0 THEN deduplicateSeamVertices(tris, <<1, 10000>>) ELSE tris,
         LAMBDA deduped : IF Len(deduped) > 0 THEN propagateNormals(deduped) ELSE deduped)

\* step 3 (lines 234-240): the one grid that boolean builds for a mesh, on the
\* XY plane, with the cell size max(2*avgEdge, 0.1)
GridHanded(tris) == buildSpatialGrid(tris, CellSizeOf(tris))

\* steps 2 to 7 (lines 222-260): the four groups, or the TypeError that the
\* point classifier throws.  The classifiers are handed the opposing mesh's
\* XY grid where they read {xy, yz, xz}; their fifth and sixth arguments (the
\* cell size) are arguments they do not declare.
Groups(soupA, soupB, taggedSegments, del) ==
    With2(crossedSet(taggedSegments, "idxA"), crossedSet(taggedSegments, "idxB"),
          LAMBDA crossedSetA, crossedSetB :
    With2(GridHanded(soupA), GridHanded(soupB),
          LAMBDA gridA, gridB :
    With(classifyByFloodFill(soupA, crossedSetA, soupB, gridB), LAMBDA classA :
    IF classA.threw THEN classA ELSE
    With(classifyByFloodFill(soupB, crossedSetB, soupA, gridA), LAMBDA classB :
    IF classB.threw THEN classB ELSE
    With(splitStraddlingAndClassify(soupA, classA.value, crossedSetA, soupB, gridB, del),
         LAMBDA groupsA :
    IF groupsA.threw THEN groupsA ELSE
    With(splitStraddlingAndClassify(soupB, classB.value, crossedSetB, soupA, gridA, del),
         LAMBDA groupsB :
    IF groupsB.threw THEN groupsB ELSE
    With([k \in 1..4 |-> DedupAndPropagate(<<groupsA.value.inside, groupsA.value.outside,
                                             groupsB.value.inside, groupsB.value.outside>>[k])],
         LAMBDA done4 :
            Returned([aInside |-> done4[1], aOutside |-> done4[2],
                      bInside |-> done4[3], bOutside |-> done4[4]]))))))))

\* step 8 (lines 263-292); null for an operation that is none of the three
Combine(g, operation) ==
    IF operation = "subtract" THEN Ref(g.aOutside \o flipSoup(g.bInside))
    ELSE IF operation = "union" THEN Ref(g.aOutside \o g.bOutside)
    ELSE IF operation = "intersect" THEN Ref(g.aInside \o g.bInside)
    ELSE null

\* boolean(soupA, soupB, operation): null, a record {soup, points, triangles},
\* or the TypeError that escapes the call.  del is the answer of the external
\* triangulation library.
boolean(soupA, soupB, operation, del) ==
    IF EmptyInput(soupA, soupB) THEN null ELSE
    With(intersectMeshPairTagged(soupA.tris, soupB.tris), LAMBDA taggedSegments :
    IF Len(taggedSegments) = 0 THEN NoIntersection(soupA.tris, soupB.tris, operation) ELSE
    With(Groups(soupA.tris, soupB.tris, taggedSegments, del), LAMBDA groups :
    IF groups.threw THEN groups ELSE
    With(Combine(groups.value, operation), LAMBDA combined :
    IF combined = null THEN null
    ELSE IF Len(combined.tris) = 0 THEN null
    ELSE Welded(combined.tris, <<1, 10000>>))))

\* ---- state -----------------------------------------------------------------
VARIABLES
    soupA,          \* first triangle soup handed to the library
    soupB,          \* second triangle soup
    missing,        \* the arguments of boolean the caller left out (undefined)
    operation,      \* the operation name handed to boolean
    done,           \* the calls made so far
    segsAB,         \* what intersectMeshPairTagged(soupA, soupB) returned
    segsBA,         \* what intersectMeshPairTagged(soupB, soupA) returned
    segsAA,         \* what intersectMeshPairTagged(soupA, soupA) returned
    result,         \* what boolean(soupA, soupB, operation) returned or threw
    resultSwapped,  \* what boolean(soupB, soupA, operation) returned or threw
    group,          \* a classified group handed to propagateNormals
    emitted,        \* what propagateNormals(group) returned
    call,           \* the arguments of a function called on its own
    ret             \* what the calls of that function returned, by name

vars == <<soupA, soupB, missing, operation, done, segsAB, segsBA, segsAA,
          result, resultSwapped, group, emitted, call, ret>>

\* no function has been called on its own
none == [none |-> TRUE]

pending == [pending |-> TRUE]

\* ---- inputs ----------------------------------------------------------------
\* the longest first soup and the longest second soup handed to the intersector
\* or to boolean, and the longest soup intersected with itself
MaxTris == 2
MaxTrisB == 1
MaxSelf == 3

\* all soups of at most n triangles of pool
Soups(pool, n) == UNION {[1..k -> pool] : k \in 0..n}

\* A horizontal triangle; a vertical one crossing it; one sharing the edge
\* (0,0,0)-(2,0,0) with it in another plane; one whose plane makes an angle of
\* 0.57 degree with it (|nA.nB| = 0.99995) and crosses it; one far away; one
\* of zero area.
TH == Tri(Vtx(0, 0, 0), Vtx(2, 0, 0), Vtx(1, 2, 0))
TV == Tri(Vtx(1, 1, -1), Vtx(1, 1, 1), Vtx(1, -1, 0))
TE == Tri(Vtx(0, 0, 0), Vtx(2, 0, 0), Vtx(0, 0, 2))
TN == Tri([x |-> R(2), y |-> R(1), z |-> <<-1, 100>>],
          [x |-> R(0), y |-> R(1), z |-> <<1, 100>>], Vtx(1, -1, 0))
TF == Tri(Vtx(4, 4, 3), Vtx(5, 4, 3), Vtx(4, 5, 3))
TZ == Tri(Vtx(0, 1, 0), Vtx(1, 1, 0), Vtx(2, 1, 0))

\* the triangles handed to the pair intersector, and to a soup intersected with
\* itself
PairPool == {TH, TV, TN, TF, TZ}
SelfPool == PairPool \cup {TE}

\* ---- the pair intersector called on its own ----------------------------------
Idle ==
    /\ missing = {}
    /\ operation = "none"
    /\ done = {}
    /\ segsAB = <<>>
    /\ segsBA = <<>>
    /\ segsAA = <<>>
    /\ result = pending
    /\ resultSwapped = pending
    /\ group = <<>>
    /\ emitted = <<>>
    /\ call = none
    /\ ret = none

InitPair ==
    /\ soupA \in Soups(PairPool, MaxTris)
    /\ soupB \in Soups(PairPool, MaxTrisB)
    /\ Idle

IntersectAB ==
    /\ "AB" \notin done
    /\ segsAB' = intersectMeshPairTagged(soupA, soupB)
    /\ done' = done \cup {"AB"}
    /\ UNCHANGED <<soupA, soupB, missing, operation, segsBA, segsAA,
                   result, resultSwapped, group, emitted,
                   call, ret>>

\* the same two soups with the arguments exchanged, after the first call
IntersectBA ==
    /\ "AB" \in done
    /\ "BA" \notin done
    /\ segsBA' = intersectMeshPairTagged(soupB, soupA)
    /\ done' = done \cup {"BA"}
    /\ UNCHANGED <<soupA, soupB, missing, operation, segsAB, segsAA,
                   result, resultSwapped, group, emitted,
                   call, ret>>

NextPair == IntersectAB \/ IntersectBA

SpecPair == InitPair /\ [][NextPair]_vars

\* ---- a soup intersected with itself -------------------------------------------
InitSelf ==
    /\ soupA \in Soups(SelfPool, MaxSelf)
    /\ soupB = <<>>
    /\ Idle

IntersectAA ==
    /\ "AA" \notin done
    /\ segsAA' = intersectMeshPairTagged(soupA, soupA)
    /\ done' = done \cup {"AA"}
    /\ UNCHANGED <<soupA, soupB, missing, operation, segsAB, segsBA,
                   result, resultSwapped, group, emitted,
                   call, ret>>

NextSelf == IntersectAA

SpecSelf == InitSelf /\ [][NextSelf]_vars


\* ---- properties of the pair intersector -------------------------------------
Range(q) == {q[i] : i \in 1..Len(q)}

\* a segment without the order of its endpoints, with its tags as (first, second)
Untagged(segs) == {<<{g.p0, g.p1}, g.idxA, g.idxB>> : g \in Range(segs)}
UntaggedSwapped(segs) == {<<{g.p0, g.p1}, g.idxB, g.idxA>> : g \in Range(segs)}

\* C8: intersectMeshPairTagged(A, B) and intersectMeshPairTagged(B, A) return
\* the same number of segments and the same set of 3-D segments up to the order
\* of the two endpoints, the tags (idxA, idxB) of each segment exchanged.
C8_PairSymmetric ==
    {"AB", "BA"} \subseteq done =>
        /\ Len(segsAB) = Len(segsBA)
        /\ Untagged(segsAB) = UntaggedSwapped(segsBA)

\* both calls returned a segment, the two grids had different cell sizes and
\* the second call reports the segment with its endpoints exchanged
C8_Witness ==
    /\ {"AB", "BA"} \subseteq done
    /\ Len(segsAB) > 0
    /\ CellSizeOf(soupA) # CellSizeOf(soupB)
    /\ \E g \in Range(segsAB), h \in Range(segsBA) :
          g.idxA = h.idxB /\ g.idxB = h.idxA /\ g.p0 = h.p1 /\ g.p1 = h.p0

\* the segments of segs tagged (i, j)
Tagged(segs, i, j) == {k \in 1..Len(segs) : segs[k].idxA = i /\ segs[k].idxB = j}

\* C9: intersectMeshPairTagged(A, B) holds exactly one segment tagged (i, j),
\* the one triTriIntersection(A_i, B_j) returns, for every pair on which
\* triTriIntersection returns a segment, and none for any other pair.
C9_OnePerPair ==
    "AB" \in done =>
        \A i \in 1..Len(soupA), j \in 1..Len(soupB) :
            LET seg == triTriIntersection(soupA[i], soupB[j])
                hits == Tagged(segsAB, i, j)
            IN IF seg = null THEN hits = {}
               ELSE /\ Cardinality(hits) = 1
                    /\ \A k \in hits : segsAB[k].p0 = seg.p0 /\ segsAB[k].p1 = seg.p1

\* a segment was emitted for a pair whose B triangle is indexed in two or more
\* of the grid cells that the A triangle's box overlaps
C9_Witness ==
    /\ "AB" \in done
    /\ \E g \in Range(segsAB) :
          Cardinality(CellsOfBox(triBBox(soupA[g.idxA]), CellSizeOf(soupB))
                      \cap CellsOfBox(triBBox(soupB[g.idxB]), CellSizeOf(soupB))) >= 2

\* the two triangles lie in one plane: parallel normals, and a vertex of the
\* second on the plane of the first
CoincidentPlanes(t1, t2) ==
    /\ IsZeroVec(cross(triNormal(t1), triNormal(t2)))
    /\ RIsZero(Dot(triNormal(t1), VSub(t2.v0, t1.v0)))

\* C10 as stated: intersectMeshPairTagged(A, A) is non-empty only if two
\* triangles of A have coincident planes.
C10_AsStated ==
    ("AA" \in done /\ Len(segsAA) > 0) =>
        \E i, j \in 1..Len(soupA) : i # j /\ CoincidentPlanes(soupA[i], soupA[j])

\* C10, amended: intersectMeshPairTagged(A, A) emits no segment for a triangle
\* paired with itself, nor for two triangles whose planes are coincident or
\* within the coplanar threshold (|nA.nB| > 0.9999); every segment it emits
\* joins two different triangles in different planes, and is the one
\* triTriIntersection returns for them.
C10_SelfPairs ==
    "AA" \in done =>
        \A k \in 1..Len(segsAA) :
            LET i == segsAA[k].idxA
                j == segsAA[k].idxB
            IN /\ i # j
               /\ ~CoincidentPlanes(soupA[i], soupA[j])
               /\ ~NearParallel(triNormal(soupA[i]), triNormal(soupA[j]))

\* a soup whose triangles lie in pairwise different planes, two of them sharing
\* an edge, was intersected with itself and the list is not empty
C10_Witness ==
    /\ "AA" \in done
    /\ Len(segsAA) > 0
    /\ \A i, j \in 1..Len(soupA) : i # j => ~CoincidentPlanes(soupA[i], soupA[j])
    /\ \E g \in Range(segsAA) :
          {g.p0, g.p1} \subseteq ({soupA[g.idxA].v0, soupA[g.idxA].v1, soupA[g.idxA].v2}
                                  \cap {soupA[g.idxB].v0, soupA[g.idxB].v1, soupA[g.idxB].v2})

\* ---- the winding propagator called on a group ----------------------------------
\* the longest group handed to propagateNormals
MaxGroup == 4

\* Faces over the corners of a tetrahedron, in both windings for the bottom
\* face; a face folded over the bottom face along the edge (0,0,0)-(1,0,0), its
\* normal (0,-1,1) pointing up like the bottom face's; a face far away.
WBottom == Tri(Vtx(0, 0, 0), Vtx(1, 0, 0), Vtx(0, 1, 0))
WBottomRev == Tri(Vtx(0, 0, 0), Vtx(0, 1, 0), Vtx(1, 0, 0))
WFront == Tri(Vtx(0, 0, 0), Vtx(1, 0, 0), Vtx(0, 0, 1))
WSlope == Tri(Vtx(1, 0, 0), Vtx(0, 1, 0), Vtx(0, 0, 1))
WLeft == Tri(Vtx(0, 0, 0), Vtx(0, 0, 1), Vtx(0, 1, 0))
WFold == Tri(Vtx(0, 0, 0), Vtx(1, 0, 0), Vtx(0, 1, 1))
WFar == Tri(Vtx(3, 3, 0), Vtx(4, 3, 0), Vtx(3, 4, 0))

GroupPool == {WBottom, WBottomRev, WFront, WSlope, WLeft, WFold, WFar}

InitWinding ==
    /\ group \in Soups(GroupPool, MaxGroup)
    /\ soupA = <<>>
    /\ soupB = <<>>
    /\ missing = {}
    /\ operation = "none"
    /\ done = {}
    /\ segsAB = <<>>
    /\ segsBA = <<>>
    /\ segsAA = <<>>
    /\ result = pending
    /\ resultSwapped = pending
    /\ emitted = <<>>
    /\ call = none
    /\ ret = none

CallPropagateNormals ==
    /\ "PN" \notin done
    /\ emitted' = propagateNormals(group)
    /\ done' = done \cup {"PN"}
    /\ UNCHANGED <<soupA, soupB, missing, operation, segsAB, segsBA, segsAA,
                   result, resultSwapped, group,
                   call, ret>>

NextWinding == CallPropagateNormals

SpecWinding == InitWinding /\ [][NextWinding]_vars

\* the directed edges of a triangle, as pairs of vertices
DirectedEdges(tri) == {<<tri.v0, tri.v1>>, <<tri.v1, tri.v2>>, <<tri.v2, tri.v0>>}

\* the triangles of tris that use the undirected edge {p, q}
EdgeUsers(tris, p, q) ==
    {i \in 1..Len(tris) : <<p, q>> \in DirectedEdges(tris[i])
                          \/ <<q, p>> \in DirectedEdges(tris[i])}

\* every edge shared by exactly two triangles of tris is traversed by them in
\* opposite directions
OppositeOnSharedEdges(tris) ==
    \A i \in 1..Len(tris) : \A d \in DirectedEdges(tris[i]) :
        LET users == EdgeUsers(tris, d[1], d[2])
        IN (d[1] # d[2] /\ Cardinality(users) = 2) =>
              \A j \in users \ {i} : <<d[2], d[1]>> \in DirectedEdges(tris[j])
                                     /\ d \notin DirectedEdges(tris[j])

\* C5 as stated: after propagateNormals, every edge shared by exactly two
\* triangles of the emitted group is traversed by the two in opposite directions.
C5_AsStated == "PN" \in done => OppositeOnSharedEdges(emitted)

\* ---- boolean called on two soups ---------------------------------------------------
BoolPool == {TH, TV, TF}

\* the three operations, and a name that is none of them
Operations == {"union", "intersect", "subtract", "xor"}

Init ==
    /\ missing \in SUBSET {"A", "B"}
    /\ soupA \in IF "A" \in missing THEN {<<>>} ELSE Soups(BoolPool, MaxTris)
    /\ soupB \in IF "B" \in missing THEN {<<>>} ELSE Soups(BoolPool, MaxTrisB)
    /\ operation \in Operations
    /\ done = {}
    /\ segsAB = <<>>
    /\ segsBA = <<>>
    /\ segsAA = <<>>
    /\ result = pending
    /\ resultSwapped = pending
    /\ group = <<>>
    /\ emitted = <<>>
    /\ call = none
    /\ ret = none

\* the arguments as the caller hands them over
ArgA == IF "A" \in missing THEN null ELSE Ref(soupA)
ArgB == IF "B" \in missing THEN null ELSE Ref(soupB)

CallBoolean ==
    /\ "boolean" \notin done
    /\ \E del \in DelaunayAnswers : result' = boolean(ArgA, ArgB, operation, del)
    /\ With(inputsAfter(ArgA, ArgB, operation), LAMBDA after :
            soupA' = TrisOf(after[1]) /\ soupB' = TrisOf(after[2]))
    /\ done' = done \cup {"boolean"}
    /\ UNCHANGED <<missing, operation, segsAB, segsBA, segsAA,
                   resultSwapped, group, emitted,
                   call, ret>>

\* the same call with the two soups exchanged, after the first call
CallBooleanSwapped ==
    /\ "boolean" \in done
    /\ "swapped" \notin done
    /\ \E del \in DelaunayAnswers : resultSwapped' = boolean(ArgB, ArgA, operation, del)
    /\ With(inputsAfter(ArgB, ArgA, operation), LAMBDA after :
            soupB' = TrisOf(after[1]) /\ soupA' = TrisOf(after[2]))
    /\ done' = done \cup {"swapped"}
    /\ UNCHANGED <<missing, operation, segsAB, segsBA, segsAA,
                   result, group, emitted,
                   call, ret>>

Next == CallBoolean \/ CallBooleanSwapped

Spec == Init /\ [][Next]_vars


\* ---- properties of boolean ---------------------------------------------------------
ThreeOperations == {"union", "intersect", "subtract"}

\* both soups were handed over and hold at least one triangle
ValidInputs == missing = {} /\ Len(soupA) > 0 /\ Len(soupB) > 0

BBoxDisjoint == ~bboxOverlap(computeBBox(soupA), computeBBox(soupB))

HasSoup(r) == DOMAIN r = {"soup", "points", "triangles"}

\* C1: for non-empty soups on which the pair intersector finds no segment,
\* which is the case whenever their 3-D bounding boxes are disjoint, intersect
\* returns null, union returns A's triangles followed by B's, and subtract
\* returns A triangle for triangle.
C1_NoSegment ==
    ("boolean" \in done /\ ValidInputs) =>
        /\ BBoxDisjoint => Len(intersectMeshPairTagged(soupA, soupB)) = 0
        /\ Len(intersectMeshPairTagged(soupA, soupB)) = 0 =>
              /\ operation = "intersect" => result = null
              /\ operation = "union" =>
                    /\ HasSoup(result)
                    /\ Len(result.soup) = Len(soupA) + Len(soupB)
                    /\ result.soup = soupA \o soupB
              /\ operation = "subtract" => HasSoup(result) /\ result.soup = soupA

C1_Witness ==
    /\ "boolean" \in done
    /\ ValidInputs
    /\ BBoxDisjoint
    /\ operation = "subtract"
    /\ Len(soupA) = 2
    /\ HasSoup(result)
    /\ result.soup = soupA

\* the winding of a triangle reversed: v1 and v2 exchanged
Reversed(t) == Tri(t.v0, t.v2, t.v1)

\* what the operation selects from the four groups
Selected(g, op) ==
    IF op = "union" THEN g.aOutside \o g.bOutside
    ELSE IF op = "intersect" THEN g.aInside \o g.bInside
    ELSE g.aOutside \o [k \in 1..Len(g.bInside) |-> Reversed(g.bInside[k])]

\* C2: when at least one intersection segment exists, the soup returned by
\* boolean is A_outside followed by B_outside for union, A_inside followed by
\* B_inside for intersect, and A_outside followed by the reversed B_inside for
\* subtract (null when that selection is empty).
C2_AsStated ==
    ("boolean" \in done /\ ValidInputs /\ operation \in ThreeOperations
       /\ Len(intersectMeshPairTagged(soupA, soupB)) > 0) =>
        \E del \in DelaunayAnswers :
            LET g == Groups(soupA, soupB, intersectMeshPairTagged(soupA, soupB), del)
            IN /\ ~g.threw
               /\ IF Len(Selected(g.value, operation)) = 0 THEN result = null
                  ELSE HasSoup(result) /\ result.soup = Selected(g.value, operation)

\* C3: boolean returns null whenever soupA or soupB is missing or has zero
\* triangles, for each of the three operations.
C3_EmptyInputNull ==
    ("boolean" \in done /\ operation \in ThreeOperations /\ ~ValidInputs) => result = null

C3_Witness ==
    /\ "boolean" \in done
    /\ operation = "union"
    /\ missing = {}
    /\ Len(soupA) = 2
    /\ Len(soupB) = 0
    /\ result = null

\* C4: boolean never throws: for each of the three operations the call returns
\* null or a {soup, points, triangles} record.
C4_AsStated ==
    ("boolean" \in done /\ operation \in ThreeOperations) =>
        (result = null \/ HasSoup(result))

\* the undirected edges of a welded triangle, and the number of triangles of a
\* welded list that use an edge
WeldedEdges(t) ==
    {{t.vertices[1], t.vertices[2]}, {t.vertices[2], t.vertices[3]},
     {t.vertices[3], t.vertices[1]}}

EdgeUse(list, e) == Cardinality({k \in 1..Len(list) : e \in WeldedEdges(list[k])})

SoupEdgeUse(soup, e) ==
    Cardinality({k \in 1..Len(soup) :
        e \in {{soup[k].v0, soup[k].v1}, {soup[k].v1, soup[k].v2}, {soup[k].v2, soup[k].v0}}})

Rotations(t) == {<<t.v0, t.v1, t.v2>>, <<t.v1, t.v2, t.v0>>, <<t.v2, t.v0, t.v1>>}

\* the same triangles up to their order and a winding-keeping vertex order
SameUpToOrder(s1, s2) ==
    /\ Len(s1) = Len(s2)
    /\ \A k \in 1..Len(s1) :
          Cardinality({i \in 1..Len(s1) : Rotations(s1[i]) = Rotations(s1[k])})
            = Cardinality({i \in 1..Len(s2) : Rotations(s2[i]) = Rotations(s1[k])})

\* C7: for union and intersect and valid soups, boolean(A,B,op).soup equals
\* boolean(B,A,op).soup up to triangle order and winding-keeping vertex
\* orders, and one is null exactly when the other is.
C7_AsStated ==
    ("boolean" \in done /\ "swapped" \in done /\ ValidInputs
       /\ operation \in {"union", "intersect"}) =>
        /\ result = null \/ HasSoup(result)
        /\ resultSwapped = null \/ HasSoup(resultSwapped)
        /\ (result = null) <=> (resultSwapped = null)
        /\ HasSoup(result) /\ HasSoup(resultSwapped) =>
              SameUpToOrder(result.soup, resultSwapped.soup)


Alone ==
    /\ soupA = <<>>
    /\ soupB = <<>>
    /\ missing = {}
    /\ operation = "none"
    /\ done = {}
    /\ segsAB = <<>>
    /\ segsBA = <<>>
    /\ segsAA = <<>>
    /\ result = pending
    /\ resultSwapped = pending
    /\ group = <<>>
    /\ emitted = <<>>

soups == <<soupA, soupB, missing, operation, done, segsAB, segsBA, segsAA,
           result, resultSwapped, group, emitted>>

\* ---- the triangle-triangle test called on two triangles -------------------------
\* TH moved one unit up (parallel, offset), and TH moved within its plane
\* (coplanar, overlapping)
TP == Tri(Vtx(0, 0, 1), Vtx(2, 0, 1), Vtx(1, 2, 1))
TC == Tri(Vtx(1, 0, 0), Vtx(3, 0, 0), Vtx(2, 2, 0))

TriPool == SelfPool \cup {TP, TC}

InitTri ==
    /\ call \in [triA : TriPool, triB : TriPool]
    /\ ret = [seg |-> pending, detailed |-> pending]
    /\ Alone

CallTriTri ==
    /\ ret.seg = pending
    /\ ret' = [ret EXCEPT !.seg = triTriIntersection(call.triA, call.triB)]
    /\ UNCHANGED <<call, soups>>

CallTriTriDetailed ==
    /\ ret.detailed = pending
    /\ ret' = [ret EXCEPT !.detailed = triTriIntersectionDetailed(call.triA, call.triB)]
    /\ UNCHANGED <<call, soups>>

NextTri == CallTriTri \/ CallTriTriDetailed

SpecTri == InitTri /\ [][NextTri]_vars

\* |nA.nB| > 0.9999 for the unit normals of the two triangles of the call
CallNearParallel == NearParallel(triNormal(call.triA), triNormal(call.triB))

\* C11: triTriIntersection returns null for every pair of triangles whose unit
\* normals satisfy |nA.nB| > 0.9999 (a triangle with itself, with a coplanar
\* overlapping one, with a parallel offset one), and
\* triTriIntersectionDetailed returns null for exactly the pairs for which
\* triTriIntersection does.
C11_CoplanarNull ==
    /\ (ret.seg # pending /\ CallNearParallel) => ret.seg = null
    /\ (ret.detailed # pending /\ CallNearParallel) => ret.detailed = null
    /\ (ret.seg # pending /\ ret.detailed # pending) =>
            (ret.seg = null <=> ret.detailed = null)

\* both functions were called on two triangles that cross each other, neither
\* on one side of the other's plane, in planes that are near-parallel but not
\* parallel, and both returned null
C11_Witness ==
    /\ ret.seg = null
    /\ ret.detailed = null
    /\ CallNearParallel
    /\ ~IsZeroVec(cross(triNormal(call.triA), triNormal(call.triB)))
    /\ ~SameSide(PlaneDistances(call.triA, triNormal(call.triB),
                                RNeg(Dot(triNormal(call.triB), call.triB.v0))))
    /\ ~SameSide(PlaneDistances(call.triB, triNormal(call.triA),
                                RNeg(Dot(triNormal(call.triA), call.triA.v0))))

\* ---- the point classifier called on a point and a mesh ---------------------------
\* build(triangles, cellSize, projection): the grid of buildSpatialGrid on the
\* boxes projected to the plane of the axis ("x": YZ, "y": XZ)
buildSpatialGridOnAxes(tris, cellSize, axis) ==
    buildSpatialGrid([i \in 1..Len(tris) |->
                         [k \in {"v0", "v1", "v2"} |->
                             With(Project(tris[i][k], axis), LAMBDA q :
                                 [x |-> q.a, y |-> q.b, z |-> q.r])]], cellSize)

\* buildGrids(tris): the three grids, one cell size
buildGrids(tris) ==
    With(CellSizeOf(tris), LAMBDA cellSize :
        [xy |-> [grid |-> buildSpatialGrid(tris, cellSize), cellSize |-> cellSize],
         yz |-> [grid |-> buildSpatialGridOnAxes(tris, cellSize, "x"), cellSize |-> cellSize],
         xz |-> [grid |-> buildSpatialGridOnAxes(tris, cellSize, "y"), cellSize |-> cellSize]])

\* createCube(cx, cy, cz, size) for an even size: 12 triangles, two per face
createCube(cx, cy, cz, size) ==
    With(size \div 2, LAMBDA h :
    With(<<Vtx(cx - h, cy - h, cz - h), Vtx(cx + h, cy - h, cz - h),
           Vtx(cx + h, cy + h, cz - h), Vtx(cx - h, cy + h, cz - h),
           Vtx(cx - h, cy - h, cz + h), Vtx(cx + h, cy - h, cz + h),
           Vtx(cx + h, cy + h, cz + h), Vtx(cx - h, cy + h, cz + h)>>, LAMBDA v :
        [t \in 1..12 |->
            With(<<<<0, 2, 1>>, <<0, 3, 2>>, <<4, 5, 6>>, <<4, 6, 7>>,
                   <<0, 1, 5>>, <<0, 5, 4>>, <<2, 3, 7>>, <<2, 7, 6>>,
                   <<0, 4, 7>>, <<0, 7, 3>>, <<1, 2, 6>>, <<1, 6, 5>>>>[t], LAMBDA c :
                Tri(v[c[1] + 1], v[c[2] + 1], v[c[3] + 1]))]))

Cube == createCube(0, 0, 0, 2)

\* the coordinates of the points classified: outside the cube on either side,
\* inside it, and 2e-4 to either side of the face at 1
Coords == {R(-3), <<-1, 2>>, <<1, 5>>, <<7, 10>>, <<4999, 5000>>, <<5001, 5000>>, R(3)}

PointPool == [x : Coords, y : Coords, z : Coords]

\* two walls in the planes x = 4 and x = 5
TW4 == Tri(Vtx(4, -2, -2), Vtx(4, 2, -2), Vtx(4, 0, 2))
TW5 == Tri(Vtx(5, -2, -2), Vtx(5, 2, -2), Vtx(5, 0, 2))

\* the cube, one triangle, two triangles one above the other, a vertical
\* triangle, two crossing triangles, and a triangle with two walls beside it
MeshPool == {Cube, <<TH>>, <<TH, TP>>, <<TV>>, <<TH, TV>>, <<TH, TW4, TW5>>}

InitClassify ==
    /\ call \in [point : PointPool, otherTris : MeshPool]
    /\ ret = pending
    /\ Alone

CallClassifyPoint ==
    /\ ret = pending
    /\ ret' = classifyPointMultiAxis(call.point, call.otherTris, buildGrids(call.otherTris))
    /\ UNCHANGED <<call, soups>>

NextClassify == CallClassifyPoint

SpecClassify == InitClassify /\ [][NextClassify]_vars

\* the votes of the axes z, x, y for the point of the call: 0 no hit, 1 inside,
\* 2 outside
CallVotes ==
    With(buildGrids(call.otherTris), LAMBDA grids :
        <<classifyPointOnAxis(call.point, call.otherTris, grids.xy.grid, grids.xy.cellSize, "z"),
          classifyPointOnAxis(call.point, call.otherTris, grids.yz.grid, grids.yz.cellSize, "x"),
          classifyPointOnAxis(call.point, call.otherTris, grids.xz.grid, grids.xz.cellSize, "y")>>)

InsideVotes(votes) == Cardinality({c \in 1..3 : votes[c] = 1})
OutsideVotes(votes) == Cardinality({c \in 1..3 : votes[c] = 2})

\* C13: classifyPointMultiAxis returns +1 or -1 and nothing else: +1 if at
\* least two axes vote inside; otherwise -1 if at least one axis votes outside;
\* otherwise +1 if exactly one axis voted inside; otherwise -1.
C13_VoteTable ==
    ret # pending =>
        /\ ret \in {Returned(1), Returned(-1)}
        /\ With(CallVotes, LAMBDA votes :
              ret = Returned(IF InsideVotes(votes) >= 2 THEN 1
                             ELSE IF OutsideVotes(votes) >= 1 THEN -1
                             ELSE IF InsideVotes(votes) = 1 THEN 1
                             ELSE -1))

\* the classifier returned +1 on a single inside vote, the two other axes
\* having had no hit
C13_Witness ==
    /\ ret = Returned(1)
    /\ InsideVotes(CallVotes) = 1
    /\ OutsideVotes(CallVotes) = 0

\* the jitter magnitude, 1e-4
JitterMagnitude == <<1, 10000>>

\* the point is farther than the jitter magnitude from the planes x, y, z = -1
\* and x, y, z = 1 of the faces of Cube
OffFaces(p) ==
    \A c \in {p.x, p.y, p.z} :
        /\ RLess(JitterMagnitude, RAbs(RSub(c, R(1))))
        /\ RLess(JitterMagnitude, RAbs(RAdd(c, R(1))))

StrictlyInside(p) == \A c \in {p.x, p.y, p.z} : RLess(RAbs(c), R(1))

\* C14: against the closed axis-aligned cube with three grids of one cell
\* size, classifyPointMultiAxis returns +1 for every point strictly inside and
\* -1 for every point outside, the point being farther than the jitter
\* magnitude from every face plane (and so from every face diagonal, which
\* lies in a face plane).
C14_CubeInsideOutside ==
    (ret # pending /\ call.otherTris = Cube /\ OffFaces(call.point)) =>
        ret = Returned(IF StrictlyInside(call.point) THEN 1 ELSE -1)

\* a point strictly inside the cube, on the diagonal x = y = z, was classified
\* against the cube and found inside
C14_Witness ==
    /\ ret = Returned(1)
    /\ call.otherTris = Cube
    /\ StrictlyInside(call.point)
    /\ call.point.x = call.point.y
    /\ call.point.y = call.point.z

\* ---- the grid built and queried on its own ---------------------------------------
\* the longest soup binned
MaxGridTris == 2

\* a triangle on the negative side of both axes, and one across the origin
TM == Tri(Vtx(-2, -2, 0), Vtx(-1, -2, 0), Vtx(-2, -1, 0))
TO == Tri(Vtx(-1, -1, 0), Vtx(1, -1, 0), Vtx(0, 1, 0))

GridPool == {TH, TM, TO}

\* the bounds of the query boxes on either axis, and the cell sizes
BoxCoords == {R(-2), <<-1, 2>>, R(0), <<3, 2>>}
CellSizes == {R(1), <<3, 2>>, R(3)}

InitGrid ==
    /\ call \in {c \in [tris : Soups(GridPool, MaxGridTris), cellSize : CellSizes,
                        bb : [minX : BoxCoords, maxX : BoxCoords,
                              minY : BoxCoords, maxY : BoxCoords]] :
                    RLeq(c.bb.minX, c.bb.maxX) /\ RLeq(c.bb.minY, c.bb.maxY)}
    /\ ret = pending
    /\ Alone

CallQueryGrid ==
    /\ ret = pending
    /\ ret' = Returned(queryGrid(buildSpatialGrid(call.tris, call.cellSize),
                                 call.bb, call.cellSize))
    /\ UNCHANGED <<call, soups>>

NextGrid == CallQueryGrid

SpecGrid == InitGrid /\ [][NextGrid]_vars

\* the XY boxes of the triangle and of the query have a common point
OverlapXY(bbT, bb) ==
    /\ RLeq(bbT.minX, bb.maxX) /\ RLeq(bb.minX, bbT.maxX)
    /\ RLeq(bbT.minY, bb.maxY) /\ RLeq(bb.minY, bbT.maxY)

\* C15: queryGrid on the grid buildSpatialGrid built with the same cell size
\* returns no triangle index twice and returns every triangle whose XY bounding
\* box overlaps the query box, a point query included, for positive and
\* negative coordinates.
C15_UniqueAndComplete ==
    ret # pending =>
        /\ \A r, q \in 1..Len(ret.value) : ret.value[r] = ret.value[q] => r = q
        /\ \A i \in 1..Len(call.tris) :
              OverlapXY(triBBox(call.tris[i]), call.bb) =>
                  \E r \in 1..Len(ret.value) : ret.value[r] = i

\* a box with a negative corner was queried and a triangle returned that
\* shares at least two cells with the box
C15_Witness ==
    /\ ret # pending
    /\ RNegative(call.bb.minX)
    /\ \E r \in 1..Len(ret.value) :
          Cardinality(CellsOfBox(triBBox(call.tris[ret.value[r]]), call.cellSize)
                      \cap CellsOfBox(call.bb, call.cellSize)) >= 2

\* ---- chainSegments called on a list of segments ---------------------------------
\* the longest list of segments chained
MaxSegs == 3

Seg(a, b) == [p0 |-> a, p1 |-> b]

\* Three segments along the x axis, the first in both orientations, the
\* second given from its end to its start, which lies 0.005 off the end of the
\* first; and a segment far away.
SegPool ==
    {Seg(Vtx(0, 0, 0), Vtx(1, 0, 0)), Seg(Vtx(1, 0, 0), Vtx(0, 0, 0)),
     Seg(Vtx(2, 0, 0), [x |-> R(1), y |-> <<1, 200>>, z |-> R(0)]),
     Seg(Vtx(2, 0, 0), Vtx(3, 0, 0)),
     Seg(Vtx(10, 10, 10), Vtx(11, 10, 10))}

Thresholds == {<<1, 100>>, <<1, 2>>}

InitChain ==
    /\ call \in [segments : Soups(SegPool, MaxSegs), threshold : Thresholds]
    /\ ret = pending
    /\ Alone

CallChainSegments ==
    /\ ret = pending
    /\ ret' = Returned(chainSegments(call.segments, call.threshold))
    /\ UNCHANGED <<call, soups>>

NextChain == CallChainSegments

SpecChain == InitChain /\ [][NextChain]_vars

\* the two points are nearer than the threshold of the call, or farther apart
Within(p, q) == RLess(DistSq(p, q), RMul(call.threshold, call.threshold))
Beyond(p, q) == RLess(RMul(call.threshold, call.threshold), DistSq(p, q))

\* the start and the end of segment i when it is walked in orientation o
StartOf(i, o) == IF o = 0 THEN call.segments[i].p0 ELSE call.segments[i].p1
EndOf(i, o) == IF o = 0 THEN call.segments[i].p1 ELSE call.segments[i].p0

\* The segments of the call, taken in the order pi and walked in the
\* orientations o, form one open path: the end of each is within the threshold
\* of the start of the next, and every other two endpoints are farther apart
\* than the threshold.
IsOpenPath(pi, o) ==
    With(Len(call.segments), LAMBDA n :
        /\ \A k \in 1..(n - 1) : Within(EndOf(pi[k], o[pi[k]]), StartOf(pi[k + 1], o[pi[k + 1]]))
        /\ \A k, m \in 1..n : \A e, f \in {0, 1} :
              \/ (k = m /\ e = f)
              \/ (m = k + 1 /\ e = 1 /\ f = 0)
              \/ (k = m + 1 /\ e = 0 /\ f = 1)
              \/ Beyond(IF e = 0 THEN StartOf(pi[k], o[pi[k]]) ELSE EndOf(pi[k], o[pi[k]]),
                        IF f = 0 THEN StartOf(pi[m], o[pi[m]]) ELSE EndOf(pi[m], o[pi[m]])))

\* the polyline follows the path: n + 1 vertices, the first the start of the
\* path, the last its end, and each one between an endpoint of its junction
FollowsPath(poly, pi, o) ==
    With(Len(call.segments), LAMBDA n :
        /\ Len(poly) = n + 1
        /\ poly[1] = StartOf(pi[1], o[pi[1]])
        /\ poly[n + 1] = EndOf(pi[n], o[pi[n]])
        /\ \A k \in 1..(n - 1) :
              poly[k + 1] \in {EndOf(pi[k], o[pi[k]]), StartOf(pi[k + 1], o[pi[k + 1]])})

Orders == {pi \in [1..Len(call.segments) -> 1..Len(call.segments)] :
              \A k, m \in 1..Len(call.segments) : pi[k] = pi[m] => k = m}

Orientations == [1..Len(call.segments) -> {0, 1}]

\* segment i has no endpoint within the threshold of an endpoint of another
Isolated(i) ==
    \A m \in 1..Len(call.segments) : m = i \/
        \A p \in {call.segments[i].p0, call.segments[i].p1} :
            \A q \in {call.segments[m].p0, call.segments[m].p1} : ~Within(p, q)

\* C16: chainSegments on n segments that form one open path, in any order and
\* orientation (junction endpoints nearer than the threshold, every other two
\* endpoints farther apart than it), returns exactly one polyline, of n + 1
\* vertices in path order; and every segment with no endpoint within the
\* threshold of another segment's endpoint is returned as its own 2-vertex
\* polyline.
C16_OpenPathChained ==
    ret # pending =>
        /\ (Len(call.segments) > 0 /\ \E pi \in Orders : \E o \in Orientations : IsOpenPath(pi, o)) =>
              /\ Len(ret.value) = 1
              /\ \E pi \in Orders : \E o \in Orientations :
                    IsOpenPath(pi, o) /\ FollowsPath(ret.value[1], pi, o)
        /\ \A i \in 1..Len(call.segments) :
              Isolated(i) =>
                  \E r \in 1..Len(ret.value) :
                      ret.value[r] = <<call.segments[i].p0, call.segments[i].p1>>

\* three segments forming one open path, the first of the list in its middle
\* and the junctions not all at equal points, were chained into one polyline
C16_Witness ==
    /\ ret # pending
    /\ Len(call.segments) = 3
    /\ Len(ret.value) = 1
    /\ \E pi \in Orders : \E o \in Orientations :
          /\ IsOpenPath(pi, o)
          /\ pi[2] = 1
          /\ EndOf(pi[1], o[pi[1]]) # StartOf(pi[2], o[pi[2]])

\* ---- simplifyPolyline called on a polyline ---------------------------------------
\* the longest polyline simplified
MaxPts == 4

\* points on the x axis, 1, 2 or 3 apart, and the spacings
PolyPool == {Vtx(0, 0, 0), Vtx(1, 0, 0), Vtx(3, 0, 0)}
Spacings == {R(-1), R(0), R(1), <<5, 2>>}

InitSimplify ==
    /\ call \in [points : Soups(PolyPool, MaxPts), spacing : Spacings]
    /\ ret = pending
    /\ Alone

CallSimplifyPolyline ==
    /\ ret = pending
    /\ ret' = simplifyPolyline(call.points, call.spacing)
    /\ UNCHANGED <<call, soups>>

NextSimplify == CallSimplifyPolyline

SpecSimplify == InitSimplify /\ [][NextSimplify]_vars

\* element k of the set of integers S in ascending order
Nth(S, k) == CHOOSE x \in S : Cardinality({y \in S : y < x}) = k - 1

\* the length of the path from point a to point b of the call, in hundredths
RECURSIVE PathLength(_, _)
PathLength(a, b) ==
    IF a >= b THEN 0
    ELSE PathLength(a, b - 1) + dist3(call.points[b - 1], call.points[b])

\* the polyline returned holds the points of the call numbered in kept, in order
IsSelection(kept) ==
    /\ Len(ret.points) = Cardinality(kept)
    /\ \A k \in 1..Cardinality(kept) : ret.points[k] = call.points[Nth(kept, k)]

\* C17: simplifyPolyline returns the input array itself when it has at most 2
\* vertices or spacing <= 0; otherwise it returns a subsequence of the input, in
\* order, that begins with the first point and ends with the last, every
\* interior point kept lying at least spacing along the path from the point
\* kept before it.
C17_Simplified ==
    ret # pending =>
        IF Len(call.points) <= 2 \/ RLeq(call.spacing, RZero)
        THEN ret.isInput /\ ret.points = call.points
        ELSE /\ ~ret.isInput
             /\ \E inner \in SUBSET (2..(Len(call.points) - 1)) :
                   With(inner \cup {1, Len(call.points)}, LAMBDA kept :
                       /\ IsSelection(kept)
                       /\ \A k \in 2..(Cardinality(kept) - 1) :
                             RLeq(call.spacing,
                                  <<PathLength(Nth(kept, k - 1), Nth(kept, k)), 100>>))

\* a polyline of four points was simplified with a positive spacing: one
\* interior point was dropped and one kept
C17_Witness ==
    /\ ret # pending
    /\ Len(call.points) = 4
    /\ RPos(call.spacing)
    /\ Len(ret.points) = 3
    /\ ret.points[2] = call.points[3]
    /\ call.points[2] # call.points[3]

\* ---- generateClosingTriangles called on a soup -------------------------------------
\* the largest soup closed
MaxCloseTris == 2

\* triangles in the plane z = 0 and one standing on it, and the search distances
KA == Tri(Vtx(0, 0, 0), Vtx(2, 0, 0), Vtx(1, 1, 0))
KB == Tri(Vtx(2, 1, 0), Vtx(3, 1, 0), Vtx(2, 2, 0))
KC == Tri(Vtx(2, 0, 0), Vtx(0, 0, 0), Vtx(1, 0, 1))
KD == Tri(Vtx(0, 0, 0), Vtx(1, 1, 0), Vtx(0, 2, 0))
KE == Tri(Vtx(5, 5, 5), Vtx(6, 5, 5), Vtx(5, 6, 5))
ClosePool == {KA, KB, KC, KD, KE}
MaxDists == {<<1, 2>>, R(1), R(2)}

InitClose ==
    /\ call \in [tris : Soups(ClosePool, MaxCloseTris), maxDist : MaxDists]
    /\ ret = pending
    /\ Alone

CallGenerateClosingTriangles ==
    /\ ret = pending
    /\ ret' = Returned(generateClosingTriangles(call.tris, call.maxDist))
    /\ UNCHANGED <<call, soups>>

NextClose == CallGenerateClosingTriangles

SpecClose == InitClose /\ [][NextClose]_vars

\* the number of triangles of the soup that use the edge ek
UsesOf(soup, ek) ==
    Cardinality({h \in 1..(3 * Len(soup)) : CountedEdges(soup)[h] = ek})

\* C18 as stated: every edge that at most 2 triangles of the input soup use is
\* used by at most 2 triangles of the soup that generateClosingTriangles
\* returns, a boundary edge that an earlier closing triangle of the same pass
\* has closed included.
C18_AsStated ==
    ret # pending =>
        \A ek \in DOMAIN EdgeMapOf(ret.value) :
            UsesOf(call.tris, ek) <= 2 => UsesOf(ret.value, ek) <= 2

\* ---- repairMesh called by a host that keeps running -------------------------------
\* the tasks of its own that the host runs while repairMesh waits for a timer
MaxHostTasks == 2

\* the steps of the pipeline that wait for a timer
Phases == {"dedup", "tjunction", "weld", "degenerate", "stitch", "cap", "cleanup", "forceclose"}

Configs == {null} \cup [closeMode : {"none", "weld", "stitch"}, removeDegenerate : BOOLEAN]

\* what the counts on the soup can turn out to be
Findings == [overShared : BOOLEAN, removed : BOOLEAN, openEdges : BOOLEAN]

InitRepair ==
    /\ call \in [config : Configs, onProgress : BOOLEAN]
    /\ ret = [pc |-> "idle", log |-> <<>>]
    /\ soupA = <<TH>>
    /\ soupB \in {<<TF>>, <<>>}
    /\ missing = {}
    /\ operation = "union"
    /\ done = {}
    /\ segsAB = <<>>
    /\ segsBA = <<>>
    /\ segsAA = <<>>
    /\ result = pending
    /\ resultSwapped = pending
    /\ group = <<>>
    /\ emitted = <<>>

\* the call of repairMesh runs to the first await (lines 36-53)
CallRepairMesh ==
    /\ ret.pc = "idle"
    /\ ret' = [pc |-> "dedup", log |-> Announce(ret.log, call.onProgress, "dedup")]
    /\ UNCHANGED <<call, soups>>

\* the timer of yieldUI fires: the function goes on from its await to the next
\* one, or to its return
ResumeRepairMesh ==
    /\ ret.pc \in Phases
    /\ \E found \in Findings :
          With2(Worked(ret.log, ret.pc, Work(ret.pc, call.config, found)),
                AfterPhase(ret.pc, call.config), LAMBDA log, next :
              ret' = IF next = "complete"
                     THEN [pc |-> "resolved", log |-> Complete(log, call.config, call.onProgress)]
                     ELSE [pc |-> next, log |-> Announce(log, call.onProgress, next)])
    /\ UNCHANGED <<call, soups>>

\* a task of the host runs while repairMesh waits
HostTask ==
    /\ ret.pc \in Phases
    /\ Len(SelectSeq(ret.log, LAMBDA e : e.kind = "host")) < MaxHostTasks
    /\ ret' = [ret EXCEPT !.log = Append(@, Event("host", ret.pc, "task"))]
    /\ UNCHANGED <<call, soups>>

\* the host calls boolean in a task of its own
NextRepair == CallRepairMesh \/ ResumeRepairMesh \/ HostTask \/ CallBoolean

SpecRepair == InitRepair /\ [][NextRepair]_vars

\* the phases that the claim lists, in its order, for the configuration called
ExpectedPhases ==
    <<"dedup", "tjunction", "weld">>
    \o (IF removeDegenerateOf(call.config) THEN <<"degenerate">> ELSE <<>>)
    \o (IF closeModeOf(call.config) = "stitch"
        THEN <<"stitch", "cap", "cleanup", "forceclose">> ELSE <<>>)

\* the positions of the log that hold an event of this kind
At(kind) == {k \in 1..Len(ret.log) : ret.log[k].kind = kind}

\* the messages handed to onProgress are the expected ones, in order, as far as
\* the pipeline has come
InFixedOrder ==
    With2(SelectSeq(ret.log, LAMBDA e : e.kind = "progress"),
          ExpectedPhases \o <<"complete">>, LAMBDA said, expected :
        /\ Len(said) <= Len(expected)
        /\ \A k \in 1..Len(said) : said[k].what = Message(expected[k])
        /\ ret.pc = "resolved" => Len(said) = Len(expected))

\* every call of a phase's work comes after the message of that phase and an
\* await after that message
AnnouncedBeforeWork ==
    \A k \in At("work") :
        ret.log[k].phase \in Phases =>
            \E i \in At("progress") : \E j \in At("yield") :
                /\ i < j /\ j < k
                /\ ret.log[i].what = Message(ret.log[k].phase)
                /\ ret.log[j].phase = ret.log[k].phase

\* 'Repair complete.' is said at most once; once the promise has resolved it
\* was said once, after every call of work and before the return
CompleteOnce ==
    With({k \in At("progress") : ret.log[k].what = "Repair complete."}, LAMBDA said :
        /\ Cardinality(said) <= 1
        /\ ret.pc = "resolved" =>
              /\ Cardinality(said) = 1
              /\ \A c \in said : /\ \A k \in At("work") : k < c
                                 /\ \A r \in At("resolve") : c < r
              /\ Cardinality(At("resolve")) = 1)

\* a call of boolean starts and returns within one task: nothing is logged, no
\* timer is awaited, and the result is there at the end of the step
BooleanNeverYields ==
    result' # result => /\ result = pending /\ result' # pending
                        /\ ret' = ret

\* C19: repairMesh reports its phases in the fixed order dedup, T-junction
\* resolution, weld, optional degenerate removal, then for closeMode 'stitch'
\* stitch, cap, post-cap cleanup, force-close; for each phase the message is
\* emitted and the event loop yielded to before the phase's work runs; 'Repair
\* complete.' is emitted exactly once, after all work and before the promise
\* resolves; the Boolean core never yields.
C19_PhasesInOrder ==
    /\ [](call.onProgress => InFixedOrder /\ AnnouncedBeforeWork /\ CompleteOnce)
    /\ [][BooleanNeverYields]_vars

\* a repair in 'stitch' mode with degenerate removal and a progress callback
\* has resolved; the host ran a task of its own and a call of boolean meanwhile
C19_Witness ==
    /\ ret.pc = "resolved"
    /\ call.onProgress
    /\ call.config # null
    /\ call.config.closeMode = "stitch"
    /\ call.config.removeDegenerate
    /\ At("host") # {}
    /\ result # pending
    /\ Len(SelectSeq(ret.log, LAMBDA e : e.kind = "progress")) = 9

\* ---- classifyByFloodFill called on a soup -------------------------------------------
\* the largest soup classified
MaxFloodTris == 3

\* a strip of three triangles in the plane z = 0: S1 and S2 share an edge, S2
\* and S3 share an edge; S1 has its centroid inside the cube, S3 outside
S1 == Tri(Vtx(0, 0, 0), Vtx(1, 0, 0), Vtx(0, 1, 0))
S2 == Tri(Vtx(1, 0, 0), Vtx(1, 1, 0), Vtx(0, 1, 0))
S3 == Tri(Vtx(1, 0, 0), Vtx(2, 0, 0), Vtx(1, 1, 0))
FloodPool == {S1, S2, S3}

\* crossedMap with these triangles crossed (numbered from 1): each holds its
\* array of segments
CrossedMapOf(crossed) == [i \in crossed |-> <<>>]

InitFlood ==
    /\ \E tris \in Soups(FloodPool, MaxFloodTris) :
          call \in [tris : {tris}, crossed : SUBSET (1..Len(tris)), otherTris : {Cube}]
    /\ ret = pending
    /\ Alone

CallClassifyByFloodFill ==
    /\ ret = pending
    /\ ret' = classifyByFloodFill(call.tris, CrossedMapOf(call.crossed), call.otherTris,
                                  buildGrids(call.otherTris))
    /\ UNCHANGED <<call, soups>>

NextFlood == CallClassifyByFloodFill

SpecFlood == InitFlood /\ [][NextFlood]_vars

\* the non-crossed triangles of the call
NonCrossed == (1..Len(call.tris)) \ call.crossed

\* two triangles of the call have an edge in common
SharesEdge(i, j) ==
    \E a \in 1..3 : \E b \in 1..3 :
        {vk(TriVerts(call.tris[i])[a]), vk(TriVerts(call.tris[i])[(a % 3) + 1])}
        = {vk(TriVerts(call.tris[j])[b]), vk(TriVerts(call.tris[j])[(b % 3) + 1])}

\* a chain of shared edges runs from i to j through non-crossed triangles only
Linked(i, j) ==
    \E m \in 1..Len(call.tris) : \E chain \in [1..m -> NonCrossed] :
        /\ chain[1] = i
        /\ chain[m] = j
        /\ \A k \in 1..(m - 1) : SharesEdge(chain[k], chain[k + 1])

\* the class that the ray casts give the centroid of triangle i
RayClass(i) ==
    classifyPointMultiAxis(Centroid(call.tris[i]), call.otherTris,
                           buildGrids(call.otherTris)).value

\* C20: after classifyByFloodFill every crossed triangle has classification 0
\* and was never a seed nor a neighbour; every non-crossed triangle has +1 or
\* -1; two non-crossed triangles linked by a chain of shared edges through
\* non-crossed triangles have the same classification, the ray-cast class of
\* the lowest-index triangle of their component.
C20_FloodFill ==
    ret # pending =>
        /\ ~ret.threw
        /\ \A i \in call.crossed : ret.value[i] = 0 /\ i \notin ret.visited
        /\ \A i \in NonCrossed : ret.value[i] \in {1, -1}
        /\ \A i \in NonCrossed : \A j \in NonCrossed :
              Linked(i, j) =>
                  /\ ret.value[i] = ret.value[j]
                  /\ ret.value[i]
                     = RayClass(CHOOSE l \in NonCrossed :
                                   /\ Linked(i, l)
                                   /\ \A o \in NonCrossed : Linked(i, o) => l <= o)

\* a crossed triangle that shares an edge with each of two non-crossed ones
\* kept the flood from running between them: one is inside, the other outside
C20_Witness ==
    /\ ret # pending
    /\ Len(call.tris) = 3
    /\ call.crossed = {2}
    /\ SharesEdge(1, 2) /\ SharesEdge(2, 3)
    /\ ret.value[1] # ret.value[3]
    /\ ret.value[2] = 0

\* ---- splitStraddlingAndClassify called on a classified soup ---------------------------
\* the largest soup split
MaxSplitTris == 3

\* The crossed triangle PT and two triangles that are not crossed: NA has v0
\* and v1 of PT, NQ has v1 and the point QI inside PT.
PT == Tri(Vtx(0, 0, 0), Vtx(4, 0, 0), Vtx(0, 4, 0))
NA == Tri(Vtx(0, 0, 0), Vtx(4, 0, 0), Vtx(0, -1, 0))
NQ == Tri(Vtx(1, 1, 0), Vtx(4, 0, 0), Vtx(4, 4, 0))
QI == Vtx(1, 1, 0)

\* the other mesh: one triangle above PT that covers the centroid of one of the
\* three sub-triangles around QI
OtherMesh == <<Tri(Vtx(-1, 0, 1), Vtx(1, 0, 1), Vtx(0, 4, 1))>>

\* what crossedMap can hold for PT: no segment, a segment from QI to v0, a
\* segment from QI to the middle of the side v1-v2
SegChoices == {<<>>, <<Seg(QI, Vtx(0, 0, 0))>>, <<Seg(QI, Vtx(2, 2, 0))>>}

\* a triangle of the call: PT crossed with its segments, or a triangle that is
\* not crossed with the class the flood fill gave it
SplitItems ==
    {[tri |-> PT, crossed |-> TRUE, cls |-> 0, segs |-> g] : g \in SegChoices}
    \cup {[tri |-> t, crossed |-> FALSE, cls |-> c, segs |-> <<>>] :
             t \in {NA, NQ}, c \in {1, -1}}

InitSplit ==
    /\ call \in [items : Soups(SplitItems, MaxSplitTris), del : DelaunayAnswers]
    /\ ret = pending
    /\ Alone

\* the arguments of the call
SplitTris == [i \in 1..Len(call.items) |-> call.items[i].tri]
SplitClasses == [i \in 1..Len(call.items) |-> call.items[i].cls]
SplitCrossed == [i \in {k \in 1..Len(call.items) : call.items[k].crossed} |-> call.items[i].segs]

CallSplitStraddlingAndClassify ==
    /\ ret = pending
    /\ ret' = splitStraddlingAndClassify(SplitTris, SplitClasses, SplitCrossed, OtherMesh,
                                         buildGrids(OtherMesh), call.del)
    /\ UNCHANGED <<call, soups>>

NextSplit == CallSplitStraddlingAndClassify

SpecSplit == InitSplit /\ [][NextSplit]_vars

\* the keys of the endpoints of the intersection segments of the call
SegmentEndKeys ==
    UNION {UNION {{vk(call.items[i].segs[g].p0), vk(call.items[i].segs[g].p1)}
                     : g \in 1..Len(call.items[i].segs)}
              : i \in 1..Len(call.items)}

\* the non-crossed triangles of the call that have a vertex with this key
OwnersOf(key) ==
    {i \in 1..Len(call.items) :
        /\ ~call.items[i].crossed
        /\ \E c \in 1..3 : vk(TriVerts(call.items[i].tri)[c]) = key}

\* the vertices of sub (1, 2, 3 for v0, v1, v2) that qualify
Qualifying(sub) ==
    {c \in 1..3 : /\ vk(TriVerts(sub)[c]) \notin SegmentEndKeys
                  /\ OwnersOf(vk(TriVerts(sub)[c])) # {}}

\* the class that the claim gives a sub-triangle
ClaimedClass(sub) ==
    With(Qualifying(sub), LAMBDA q :
        IF q = {}
        THEN classifyPointMultiAxis(Centroid(sub), OtherMesh, buildGrids(OtherMesh)).value
        ELSE call.items[Nth(OwnersOf(vk(TriVerts(sub)[Nth(q, 1)])), 1)].cls)

\* the sub-triangles of triangle i of the call
SubsOf(i) == retriangulateWithSteinerPoints(call.items[i].tri, call.items[i].segs, call.del)

\* the triangles that the call emits, in order, each with the class claimed
\* for it: a triangle that is not crossed keeps its own
RECURSIVE ClaimedFrom(_)
ClaimedFrom(i) ==
    IF i > Len(call.items) THEN <<>>
    ELSE (IF call.items[i].crossed
          THEN With(SubsOf(i), LAMBDA subs :
                  [j \in 1..Len(subs) |-> [tri |-> subs[j], cls |-> ClaimedClass(subs[j])]])
          ELSE <<[tri |-> call.items[i].tri, cls |-> call.items[i].cls]>>)
         \o ClaimedFrom(i + 1)

\* the triangles of a list of classified triangles
TrisIn(list) == [k \in 1..Len(list) |-> list[k].tri]

\* C21: splitStraddlingAndClassify gives each sub-triangle of a crossed
\* triangle the class stored for the first of its vertices v0, v1, v2 that is
\* not an endpoint of an intersection segment and whose key is in the vertex
\* map of the non-crossed triangles (first write wins); a sub-triangle without
\* such a vertex gets the class of a ray cast from its centroid.
C21_SubTriangleClass ==
    ret # pending =>
        /\ ~ret.threw
        /\ With(ClaimedFrom(1), LAMBDA claimed :
              /\ ret.value.inside = TrisIn(SelectSeq(claimed, LAMBDA e : e.cls = 1))
              /\ ret.value.outside = TrisIn(SelectSeq(claimed, LAMBDA e : e.cls # 1)))

\* PT was cut into three sub-triangles: one has no qualifying vertex and was
\* ray cast, one has v0 as an endpoint of the segment and took the class
\* stored for its second vertex, which is not the class stored for v0
C21_Witness ==
    /\ ret # pending
    /\ \E i \in 1..Len(call.items) :
          /\ call.items[i].crossed
          /\ Len(SubsOf(i)) = 3
          /\ \E j \in 1..3 : Qualifying(SubsOf(i)[j]) = {}
          /\ \E j \in 1..3 :
                /\ Nth(Qualifying(SubsOf(i)[j]) \cup {4}, 1) = 2
                /\ OwnersOf(vk(SubsOf(i)[j].v0)) # {}
                /\ call.items[Nth(OwnersOf(vk(SubsOf(i)[j].v0)), 1)].cls
                   # ClaimedClass(SubsOf(i)[j])

\* ---- classifyPointOnAxis called on a point, a mesh and an axis -------------------------
\* points on and off the planes and the edges of the meshes, where the three
\* offsets of a ray fall on different sides
AxisCoords == {R(-2), R(0), <<1, 2>>, R(1)}
AxisPoints == [x : AxisCoords, y : AxisCoords, z : AxisCoords]
AxisMeshes == {Cube, <<TH>>, <<TH, TP>>}

\* the grid of a mesh for the rays along an axis, as buildGrids builds it
GridFor(otherTris, axis) ==
    IF axis = "z" THEN buildGrids(otherTris).xy
    ELSE IF axis = "x" THEN buildGrids(otherTris).yz
    ELSE buildGrids(otherTris).xz

InitAxis ==
    /\ call \in [point : AxisPoints, otherTris : AxisMeshes, axis : {"z", "x", "y"}]
    /\ ret = pending
    /\ Alone

\* the vote, and the counts of the three rays that it was taken from
CallClassifyPointOnAxis ==
    /\ ret = pending
    /\ With(GridFor(call.otherTris, call.axis), LAMBDA g :
          ret' = [vote |-> classifyPointOnAxis(call.point, call.otherTris, g.grid,
                                               g.cellSize, call.axis),
                  count |-> [j \in 1..3 |->
                                JitteredCount(Project(call.point, call.axis), call.otherTris,
                                              g.grid, g.cellSize, call.axis, j)]])
    /\ UNCHANGED <<call, soups>>

NextAxis == CallClassifyPointOnAxis

SpecAxis == InitAxis /\ [][NextAxis]_vars

\* the rays of the call with an odd count
OddRays == {j \in 1..3 : ret.count[j] % 2 = 1}

\* C22: classifyPointOnAxis votes no-hit (0) exactly when all three rays have
\* zero hits, inside (1) when at least two rays have an odd count, and outside
\* (2) in every other case: one odd ray with two rays that hit nothing is an
\* outside vote.
C22_AxisVote ==
    ret # pending =>
        /\ ret.vote = 0 <=> \A j \in 1..3 : ret.count[j] = 0
        /\ Cardinality(OddRays) >= 2 => ret.vote = 1
        /\ (Cardinality(OddRays) < 2 /\ \E j \in 1..3 : ret.count[j] # 0) => ret.vote = 2

\* one ray hit once and the two others hit nothing: the vote is outside
C22_Witness ==
    /\ ret # pending
    /\ Cardinality(OddRays) = 1
    /\ Cardinality({j \in 1..3 : ret.count[j] = 0}) = 2
    /\ ret.vote = 2

\* ---- retriangulateWithSteinerPoints called on a triangle and its segments ----------------
\* PT, a triangle of zero area, and a triangle whose first two vertices are one
CdtTris == {PT, TZ, Tri(Vtx(0, 0, 0), Vtx(0, 0, 0), Vtx(0, 4, 0))}

\* no segment; segments with an endpoint inside PT or on a side of it; a
\* segment outside PT; a segment between two vertices of PT; two segments, the
\* first endpoint on a side of PT
CdtSegments ==
    SegChoices \cup {<<Seg(Vtx(9, 9, 0), Vtx(8, 8, 0))>>, <<Seg(Vtx(0, 0, 0), Vtx(4, 0, 0))>>,
                     <<Seg(Vtx(2, 2, 0), QI), Seg(Vtx(9, 9, 0), QI)>>}

InitCdt ==
    /\ call \in [tri : CdtTris, segments : CdtSegments, del : DelaunayAnswers,
                 con : ConstrainOutcomes]
    /\ ret = pending
    /\ Alone

CallRetriangulate ==
    /\ ret = pending
    /\ ret' = Returned(retriangulateCDT(call.tri, call.segments, call.del, call.con))
    /\ UNCHANGED <<call, soups>>

NextCdt == CallRetriangulate

SpecCdt == InitCdt /\ [][NextCdt]_vars

\* an endpoint of a segment of the call lies in the parent triangle and is
\* none of its vertices
SteinerSurvives ==
    \E g \in 1..Len(call.segments) : \E q \in {call.segments[g].p0, call.segments[g].p1} :
        /\ vk(q) \notin {vk(call.tri.v0), vk(call.tri.v1), vk(call.tri.v2)}
        /\ \A c \in 1..3 : ~RLess(BaryOf(call.tri, q)[c], <<-1, 10000>>)

\* the parent triangle has no area: the frame length or the barycentric
\* determinant is below 1e-12
NoFrame == IsZeroVec(cross(VSub(call.tri.v1, call.tri.v0), VSub(call.tri.v2, call.tri.v0)))

\* some triangle of the Delaunay answer passes the filter of step 4
SomeSubKept ==
    \E pts \in {<<call.tri.v0, call.tri.v1, call.tri.v2>>
                \o validSteiner(call.tri, call.segments)} :
        \E k \in 1..Len(DelaunayTriangles(call.del)) :
            \E t \in {DelaunayTriangles(call.del)[k]} :
                KeepSub(call.tri, pts[t[1]], pts[t[2]], pts[t[3]])

\* one of the failure cases of the claim
CdtFailure ==
    \/ Len(call.segments) = 0
    \/ NoFrame
    \/ ~SteinerSurvives
    \/ call.del = "throws"
    \/ ~SomeSubKept

\* C23: retriangulateWithSteinerPoints never returns an empty list; it returns
\* the list of the parent triangle alone in every failure case (no segment, a
\* frame length or determinant below 1e-12, no surviving Steiner point, a throw
\* of the Delaunay constructor, a filter that rejects every sub-triangle); a
\* failed constraint or a failed Constrainautor construction alone does not
\* cause the fallback.
C23_Fallback ==
    ret # pending =>
        /\ Len(ret.value) >= 1
        /\ CdtFailure => ret.value = <<call.tri>>
        /\ ~CdtFailure => /\ ret.value # <<call.tri>>
                          /\ Len(ret.value) >= 2

\* the constraining failed, nothing else did, and sub-triangles were returned,
\* one of the fan having been rejected by the filter
C23_Witness ==
    /\ ret # pending
    /\ call.con # "ok"
    /\ ~CdtFailure
    /\ Len(ret.value) = 2
    /\ ret.value[1] # call.tri

\* ---- propagateNormals called on groups with steep faces ------------------------------
\* WLean stands almost upright and leans over: its unit normal is
\* (200, 0, -1) / sqrt(40001), z = -0.005.  WDown faces straight down.
WLean == Tri(Vtx(0, 0, 0), Vtx(0, 1, 0), Vtx(1, 0, 200))
WDown == WBottomRev
LeanPool == {WBottom, WDown, WFront, WLean}

InitLean ==
    /\ group \in Soups(LeanPool, MaxGroup)
    /\ soupA = <<>>
    /\ soupB = <<>>
    /\ missing = {}
    /\ operation = "none"
    /\ done = {}
    /\ segsAB = <<>>
    /\ segsBA = <<>>
    /\ segsAA = <<>>
    /\ result = pending
    /\ resultSwapped = pending
    /\ emitted = <<>>
    /\ call = none
    /\ ret = none

SpecLean == InitLean /\ [][NextWinding]_vars

\* some edge of the group is not shared by exactly two triangles
HasOddEdge ==
    \E h \in 1..(3 * Len(group)) :
        Cardinality({g \in 1..(3 * Len(group)) :
                        SortedKey(HalfEdge(group, g)) = SortedKey(HalfEdge(group, h))}) # 2

\* the z of the unit normal of a triangle is below -0.01
BelowThreshold(tri) ==
    \E N \in {cross(VSub(tri.v1, tri.v0), VSub(tri.v2, tri.v0))} :
        /\ RNegative(N.z)
        /\ RLess(<<1, 10000>>, RDiv(Square(N.z), Dot(N, N)))

\* C24 as stated: when the group has an edge not shared by exactly two
\* triangles, every triangle that propagateNormals returns has a normal with
\* non-negative Z.
C24_AsStated ==
    ("PN" \in done /\ HasOddEdge) =>
        \A i \in 1..Len(emitted) : ~RNegative(triNormal(emitted[i]).z)

\* C24: when the group has an edge not shared by exactly two triangles,
\* propagateNormals orients each triangle on its own: a triangle is returned
\* with v1 and v2 exchanged exactly when the Z of its unit normal is below
\* -0.01, whatever its neighbours are, so that every returned triangle has a
\* unit normal with Z of -0.01 or more.
C24_ZUpWithinThreshold ==
    ("PN" \in done /\ HasOddEdge) =>
        /\ Len(emitted) = Len(group)
        /\ \A i \in 1..Len(group) :
              /\ emitted[i] = IF BelowThreshold(group[i]) THEN Flip(group[i]) ELSE group[i]
              /\ ~BelowThreshold(emitted[i])

\* a group that is not manifold was oriented: the face that looked down was
\* turned over, the leaning face was kept with its normal below the horizon
C24_Witness ==
    /\ "PN" \in done
    /\ HasOddEdge
    /\ \E i \in 1..Len(group) : group[i] = WDown /\ emitted[i] = WBottom
    /\ \E i \in 1..Len(group) : group[i] = WLean /\ emitted[i] = WLean

\* ---- the grids boolean hands to the classifiers ----------------------------
\* the two meshes crossed and boolean went past step 2
Crossing ==
    /\ "boolean" \in done
    /\ missing = {}
    /\ Len(soupA) > 0
    /\ Len(soupB) > 0
    /\ Len(intersectMeshPairTagged(soupA, soupB)) > 0

\* C25 as stated: when the meshes cross, the classifiers of A are handed the
\* grids of B, and those of B the grids of A, in the {xy, yz, xz} form they
\* read, each with the cell size max(2*avgEdge, 0.1) it was built with, and
\* the classification goes through.
C25_AsStated ==
    Crossing =>
        /\ \A g \in {GridHanded(soupA), GridHanded(soupB)} :
              /\ {"xy", "yz", "xz"} \subseteq DOMAIN g
              /\ \A axis \in {"xy", "yz", "xz"} : "cellSize" \in DOMAIN g[axis]
        /\ result # TypeError

\* ---- chainSegments called on loops and junctions -------------------------------
CA == Vtx(0, 0, 0)
CB == Vtx(1, 0, 0)
CC == Vtx(0, 1, 0)
CD == Vtx(1, 1, 0)

\* The sides of the triangle CA CB CC, the second starting 0.005 off the end
\* of the first, the first side again in the other direction, and a segment
\* that leaves the corner CB.
LoopPool ==
    {Seg(CA, CB), Seg([x |-> R(1), y |-> <<1, 200>>, z |-> R(0)], CC), Seg(CC, CA),
     Seg(CB, CA), Seg(CB, CD)}

InitLoops ==
    /\ call \in [segments : Soups(LoopPool, MaxSegs), threshold : Thresholds]
    /\ ret = pending
    /\ Alone

SpecLoops == InitLoops /\ [][NextChain]_vars

\* the edges of the returned polylines: polyline r, from vertex k to vertex k + 1
PolyEdges ==
    UNION {{<<r, k>> : k \in 1..(Len(ret.value[r]) - 1)} : r \in 1..Len(ret.value)}

\* edge k of the polyline is segment i walked in orientation o, forwards or
\* backwards: one vertex is the end of the segment, the other is the point
\* that the start of the segment matched, nearer to it than the threshold
Walks(poly, k, i, o) ==
    \/ poly[k + 1] = EndOf(i, o) /\ Within(poly[k], StartOf(i, o))
    \/ poly[k] = EndOf(i, o) /\ Within(poly[k + 1], StartOf(i, o))

\* C26: chainSegments terminates and consumes every segment exactly once: the
\* edges of the returned polylines are as many as the segments (the sum over
\* the polylines of vertex count - 1), and they can be paired one to one with
\* the segments, each edge walking its segment; for every threshold > 0 and
\* every input, closed loops and branching junctions included.
C26_EverySegmentOnce ==
    ret # pending =>
        /\ Cardinality(PolyEdges) = Len(call.segments)
        /\ \A r \in 1..Len(ret.value) : Len(ret.value[r]) >= 2
        /\ \E f \in [1..Len(call.segments) -> PolyEdges] :
              /\ \A i, j \in 1..Len(call.segments) : f[i] = f[j] => i = j
              /\ \A i \in 1..Len(call.segments) :
                    \E o \in {0, 1} : Walks(ret.value[f[i][1]], f[i][2], i, o)

\* three segments were chained: two of them close a loop, which came back as
\* one polyline that ends where it starts, and the third leaves a corner where
\* three of the endpoints meet, and came back on its own
C26_Witness ==
    /\ ret # pending
    /\ Len(call.segments) = 3
    /\ Len(ret.value) = 2
    /\ \E r \in 1..2 : Len(ret.value[r]) = 3 /\ ret.value[r][1] = ret.value[r][3]
    /\ Cardinality({k \in 1..6 : EndpointList(call.segments)[k] = CB}) = 3

\* ---- boolean called with an operation that is none of the three -------------
\* C27 as stated: boolean on two non-empty soups with an operation outside
\* {subtract, union, intersect} returns null, when the meshes cross and when
\* the pair intersector finds no segment.
C27_AsStated ==
    ("boolean" \in done /\ missing = {} /\ Len(soupA) > 0 /\ Len(soupB) > 0
        /\ operation \notin ThreeOperations) =>
        result = null

\* ---- what propagateNormals returns for each triangle -----------------------
\* the undirected edges of a triangle, as sets of positions
SidesOf(tri) == {{d[1], d[2]} : d \in DirectedEdges(tri)}

\* the triangles of the group joined to a triangle of S by a chain of shared
\* edges
RECURSIVE EdgeConnected(_)
EdgeConnected(S) ==
    With(S \cup {j \in 1..Len(group) :
                    \E i \in S : SidesOf(group[i]) \cap SidesOf(group[j]) # {}},
         LAMBDA T : IF T = S THEN S ELSE EdgeConnected(T))

\* C28: propagateNormals returns one triangle per input triangle, in the same
\* order, each with the positions of its input triangle, v0 unchanged and at
\* most v1 and v2 exchanged; when every edge is shared by exactly two
\* triangles, the first triangle is never flipped and a triangle not
\* edge-connected to the first is returned with its input winding.
C28_OnePerInput ==
    "PN" \in done =>
        /\ Len(emitted) = Len(group)
        /\ \A i \in 1..Len(group) :
              /\ emitted[i].v0 = group[i].v0
              /\ \/ emitted[i].v1 = group[i].v1 /\ emitted[i].v2 = group[i].v2
                 \/ emitted[i].v1 = group[i].v2 /\ emitted[i].v2 = group[i].v1
        /\ (Len(group) > 0 /\ ~HasOddEdge) =>
              /\ emitted[1] = group[1]
              /\ \A i \in (1..Len(group)) \ EdgeConnected({1}) : emitted[i] = group[i]

\* a group whose edges are all shared by exactly two triangles: the second
\* triangle runs along the first and was flipped; the last two run along each
\* other, are not connected to the first, and both kept their winding
C28_Witness ==
    /\ "PN" \in done
    /\ Len(group) = 4
    /\ ~HasOddEdge
    /\ emitted[2] = Flip(group[2])
    /\ emitted[2] # group[2]
    /\ {3, 4} \cap EdgeConnected({1}) = {}
    /\ group[3] = group[4]
    /\ emitted[3] = group[3]
    /\ emitted[4] = group[4]

\* ---- weldVertices called on a soup -------------------------------------------
\* the longest soup welded
MaxWeldTris == 3

\* Two triangles over (0,0,0) and (0,2,0), their second corners 1 apart; a
\* triangle with a corner at (3/4,0,0), 1/4 off (1,0,0) and 3/4 off the origin;
\* and one with a corner at (1,0,0), 1 off both (0,0,0) and (2,0,0).
WT1 == Tri(Vtx(0, 0, 0), Vtx(2, 0, 0), Vtx(0, 2, 0))
WT2 == Tri(Vtx(0, 0, 0), Vtx(1, 0, 0), Vtx(0, 2, 0))
WT3 == Tri([x |-> <<3, 4>>, y |-> R(0), z |-> R(0)], Vtx(3, 0, 0), Vtx(1, 3, 0))
WT4 == Tri(Vtx(1, 0, 0), Vtx(3, 0, 0), Vtx(1, 3, 0))

WeldPool == {WT1, WT2, WT3, WT4}

Tolerances == {R(-1), R(0), <<1, 2>>, R(1)}

InitWeld ==
    /\ call \in [tris : Soups(WeldPool, MaxWeldTris), tolerance : Tolerances]
    /\ ret = pending
    /\ Alone

CallWeldVertices ==
    /\ ret = pending
    /\ ret' = Returned(weldVertices(call.tris, call.tolerance))
    /\ UNCHANGED <<call, soups>>

NextWeld == CallWeldVertices

SpecWeld == InitWeld /\ [][NextWeld]_vars

\* the pool points that the three corners of input triangle i were mapped to:
\* the pool as the triangles before i left it, then the three calls of
\* getOrAddPoint
MappedTo(i) ==
    WeldCorners(call.tris[i], 1,
                weldVertices(SubSeq(call.tris, 1, i - 1), call.tolerance).points, <<>>,
                RMax(RMul(call.tolerance, R(2)), <<2, 1000>>),
                RMul(call.tolerance, call.tolerance)).idx

\* the input triangles none of whose corners share a pool point, in order
KeptInputs(map) ==
    SelectSeq([i \in 1..Len(call.tris) |-> i],
              LAMBDA i : Cardinality({map[i][k] : k \in 1..3}) = 3)

\* C29: after weldVertices(tris, tol) with tol > 0 no two points of the pool
\* are within tol of each other, every corner was mapped to a pool point
\* within tol of it, every returned triangle uses three different pool
\* points, and an input triangle is left out exactly when two of its corners
\* were mapped to the same pool point; with tol <= 0 nothing is merged: three
\* points and one triangle per input triangle.
C29_Welded ==
    ret # pending =>
        With2(ret.value.points, ret.value.triangles, LAMBDA points, triangles :
            IF RPos(call.tolerance)
            THEN /\ \A a, b \in 1..Len(points) :
                       a # b => RLess(RMul(call.tolerance, call.tolerance),
                                      DistSq(points[a], points[b]))
                 /\ \A t \in 1..Len(triangles) :
                       /\ \A k \in 1..3 : triangles[t].vertices[k] \in Range(points)
                       /\ Cardinality(Range(triangles[t].vertices)) = 3
                 /\ \E map \in {[i \in 1..Len(call.tris) |-> MappedTo(i)]} :
                    \E kept \in {KeptInputs(map)} :
                       /\ \A i \in 1..Len(call.tris) : \A k \in 1..3 :
                             /\ map[i][k] \in 1..Len(points)
                             /\ RLeq(DistSq(points[map[i][k]], TriVerts(call.tris[i])[k]),
                                     RMul(call.tolerance, call.tolerance))
                       /\ Len(triangles) = Len(kept)
                       /\ \A t \in 1..Len(kept) : \A k \in 1..3 :
                             triangles[t].vertices[k] = points[map[kept[t]][k]]
            ELSE /\ Len(points) = 3 * Len(call.tris)
                 /\ Len(triangles) = Len(call.tris)
                 /\ \A i \in 1..Len(call.tris) : \A k \in 1..3 :
                       /\ points[3 * (i - 1) + k] = TriVerts(call.tris[i])[k]
                       /\ triangles[i].vertices[k] = TriVerts(call.tris[i])[k])

\* a weld with tolerance 1 of three triangles: a corner was merged into a
\* point of the cell next to its own, a triangle was left out because two of
\* its corners met in one point, and a triangle was returned
C29_Witness ==
    /\ ret # pending
    /\ call.tolerance = R(1)
    /\ Len(call.tris) = 3
    /\ Len(ret.value.triangles) \in 1..2
    /\ \E map \in {[i \in 1..Len(call.tris) |-> MappedTo(i)]} :
          /\ \E i \in 1..3 : Cardinality({map[i][k] : k \in 1..3}) < 3
          /\ \E i \in 1..3 : \E k \in 1..3 :
                Cell3(TriVerts(call.tris[i])[k], R(2)) # Cell3(ret.value.points[map[i][k]], R(2))

\* ---- repair/removeDegenerates.js, repair/resolveTJunctions.js ---------------
\* removeDegenerateTriangles(tris, 1e-6, 0.01): a new array of the triangles
\* kept, with N the cross product: area = |N| / 2 below 1e-6 is N = 0 on the
\* lattice, and minAlt / maxEdge = |N| / maxEdge^2 < 0.01
removeDegenerateTriangles(tris) ==
    SelectSeq(tris, LAMBDA tri :
        With2(cross(VSub(tri.v1, tri.v0), VSub(tri.v2, tri.v0)),
              RMax(RMax(DistSq(tri.v0, tri.v1), DistSq(tri.v1, tri.v2)),
                   DistSq(tri.v2, tri.v0)),
              LAMBDA N, maxEdgeSq :
                 /\ ~IsZeroVec(N)
                 /\ ~(RPos(maxEdgeSq)
                      /\ RLess(RMul(R(10000), Dot(N, N)), Square(maxEdgeSq)))))

\* a call of a repair function whose body is not followed: what it returns is
\* kept as the call, the function and the values handed to it
Apply(fn, args) == [fn |-> fn, args |-> args]

\* an array of triangles whose elements are known
Known(tris) == [value |-> tris]

\* lines 170-241 of resolveTJunctions: a vertex V of the soup lies on an edge
\* eA-eB of a triangle that does not have it, strictly between the ends
\* (eps < tp < 1 - eps) and on the edge (distSq < tolSq)
HasTJunction(soup) ==
    \E ti, tj \in 1..Len(soup) : \E e, c \in 1..3 :
        With3(TriVerts(soup[ti])[e], TriVerts(soup[ti])[(e % 3) + 1], TriVerts(soup[tj])[c],
              LAMBDA eA, eB, V :
                 /\ vk(V) \notin {vk(TriVerts(soup[ti])[k]) : k \in 1..3}
                 /\ IsZeroVec(cross(VSub(V, eA), VSub(eB, eA)))
                 /\ RPos(Dot(VSub(V, eA), VSub(eB, eA)))
                 /\ RLess(Dot(VSub(V, eA), VSub(eB, eA)), Dot(VSub(eB, eA), VSub(eB, eA))))

\* ---- repairMesh called twice ---------------------------------------------------
\* An array is known by what it is: one of the two arrays the caller handed
\* in ("A", "B"), or an array that the invocation made ("own"), kept with its
\* elements.
InputArray(name) == [array |-> name, content |-> null]
OwnArray(content) == [array |-> "own", content |-> content]

\* deduplicateSeamVertices(soup, 1e-4): the array handed in when it is empty
\* (line 17), else a new array
DedupOf(ref, content) ==
    IF Len(content.value) = 0 THEN ref
    ELSE OwnArray(Known(deduplicateSeamVertices(content.value, <<1, 10000>>)))

\* resolveTJunctions(soup, 1e-4): the array handed in when it is empty (line
\* 127) or nothing was split (lines 251, 268); else the new array of line 253
resolveTJunctions(ref, content) ==
    IF Len(content.value) = 0 \/ ~HasTJunction(content.value) THEN ref
    ELSE OwnArray(Apply("splitTriangleWithSteinerPoints", <<content>>))

\* soup.push(...) of lines 80-82: the array that soup names gets the elements,
\* the caller's array if soup names it
Push(ref, content, pushed) ==
    IF ref.array = "own"
    THEN [soup |-> OwnArray(Apply("push", <<content, pushed>>)), wrote |-> FALSE]
    ELSE [soup |-> ref, wrote |-> TRUE, input |-> Apply("push", <<content, pushed>>)]

\* weldVertices(soup, snapTol) with snapTol = 0, and the two fields of what it
\* returns
Weld(content) ==
    IF "value" \in DOMAIN content
    THEN With(weldVertices(content.value, RZero), LAMBDA w :
            [points |-> Known(w.points), triangles |-> Known(w.triangles)])
    ELSE [points |-> Apply("points", <<Apply("weldVertices", <<content>>)>>),
          triangles |-> Apply("triangles", <<Apply("weldVertices", <<content>>)>>)]

\* weldedToSoup(triangles): always a new array
ToSoup(triangles) ==
    IF "value" \in DOMAIN triangles THEN Known(weldedToSoup(triangles.value))
    ELSE Apply("weldedToSoup", <<triangles>>)

\* The statements between the await of a phase and the next await or the
\* return (lines 54, 59, 63-64, 71, 78-88, 93-98, 103-122, 127-137): the
\* variables soup, worldPoints and triangles after them, and what was written
\* to an array of the caller.  content is what the array named by soup holds.
RunPhase(phase, v, content, config, found) ==
    CASE phase = "dedup" -> [vars |-> [v EXCEPT !.soup = DedupOf(v.soup, content)], wrote |-> FALSE]
      [] phase = "tjunction" ->
            [vars |-> [v EXCEPT !.soup = resolveTJunctions(v.soup, content)], wrote |-> FALSE]
      [] phase = "weld" ->
            [vars |-> [v EXCEPT !.soup = OwnArray(ToSoup(Weld(content).triangles))],
             wrote |-> FALSE]
      [] phase = "degenerate" ->
            [vars |-> [v EXCEPT !.soup = OwnArray(Known(removeDegenerateTriangles(content.value)))],
             wrote |-> FALSE]
      [] phase = "stitch" ->
            With(IF found.stitched
                 THEN Push(v.soup, content, Apply("stitchByProximity", <<content>>))
                 ELSE [soup |-> v.soup, wrote |-> FALSE],
                 LAMBDA pushed :
            With(Weld(IF pushed.wrote THEN pushed.input
                      ELSE IF found.stitched THEN pushed.soup.content ELSE content),
                 LAMBDA finalWelded :
                [vars |-> [soup |-> pushed.soup, worldPoints |-> finalWelded.points,
                           triangles |-> finalWelded.triangles],
                 wrote |-> pushed.wrote,
                 input |-> IF pushed.wrote THEN pushed.input ELSE null]))
      [] phase = "cap" ->
            With(Weld(Apply("capBoundaryLoopsSequential", <<ToSoup(v.triangles)>>)),
                 LAMBDA cappedWeld :
                [vars |-> [v EXCEPT !.worldPoints = cappedWeld.points,
                                    !.triangles = cappedWeld.triangles],
                 wrote |-> FALSE])
      [] phase = "cleanup" ->
            With(IF found.overShared
                 THEN Apply("cleanCrossingTriangles", <<ToSoup(v.triangles)>>)
                 ELSE ToSoup(v.triangles), LAMBDA cleaned :
            With(IF removeDegenerateOf(config)
                 THEN Apply("removeDegenerateTriangles", <<cleaned>>) ELSE cleaned,
                 LAMBDA postCapSoup :
                [vars |-> IF found.overShared \/ (removeDegenerateOf(config) /\ found.removed)
                          THEN [v EXCEPT !.worldPoints = Weld(postCapSoup).points,
                                         !.triangles = Weld(postCapSoup).triangles]
                          ELSE v,
                 wrote |-> FALSE]))
      [] phase = "forceclose" ->
            With(IF found.openEdges
                 THEN [points |-> Apply("points", <<Apply("forceCloseIndexedMesh",
                                                         <<v.worldPoints, v.triangles>>)>>),
                       triangles |-> Apply("triangles", <<Apply("forceCloseIndexedMesh",
                                                               <<v.worldPoints, v.triangles>>)>>)]
                 ELSE [points |-> v.worldPoints, triangles |-> v.triangles],
                 LAMBDA closed :
                [vars |-> [soup |-> OwnArray(ToSoup(closed.triangles)),
                           worldPoints |-> closed.points, triangles |-> closed.triangles],
                 wrote |-> FALSE])

\* the object returned: line 140 after the stitch path, lines 144-147 otherwise
ResultOf(v, content, config) ==
    IF closeModeOf(config) = "stitch"
    THEN [points |-> v.worldPoints, triangles |-> v.triangles, soup |-> content]
    ELSE [points |-> Weld(content).points, triangles |-> Weld(content).triangles,
          soup |-> content]

\* a variable soup that both invocations would share
SlotShared(n) == 1

\* soup, worldPoints and triangles are a parameter and variables of the call
\* (lines 35, 86-87): every invocation has its own
Slot(n) == n

Invocations == {1, 2}

\* the configurations called: the defaults, the stitch path, and a weld that
\* keeps the degenerate triangles
DuoConfigs ==
    {null, [closeMode |-> "stitch", removeDegenerate |-> TRUE],
     [closeMode |-> "weld", removeDegenerate |-> FALSE]}

\* what the counts and lengths of the stitch path turn out to be for a soup
\* that has triangles, and for the empty soup
DuoFindings ==
    {[stitched |-> TRUE, overShared |-> TRUE, removed |-> FALSE, openEdges |-> TRUE],
     [stitched |-> FALSE, overShared |-> FALSE, removed |-> TRUE, openEdges |-> FALSE]}

NothingFound ==
    [stitched |-> FALSE, overShared |-> FALSE, removed |-> FALSE, openEdges |-> FALSE]

NoVars == [soup |-> null, worldPoints |-> null, triangles |-> null]

\* Two soups of the caller: one of a triangle and a collinear one, the other
\* empty.  Each invocation is handed one of them; two invocations with the
\* same soup and configuration find the same counts.
InitDuo ==
    /\ soupA = <<TH, TZ>>
    /\ soupB = <<>>
    /\ call \in [Invocations -> [input : {"A", "B"}, config : DuoConfigs,
                                 found : DuoFindings \cup {NothingFound}]]
    /\ \A n \in Invocations :
          call[n].found \in IF call[n].input = "A" THEN DuoFindings ELSE {NothingFound}
    /\ (call[1].input = call[2].input /\ call[1].config = call[2].config)
          => call[1].found = call[2].found
    /\ ret = [n \in Invocations |->
                [pc |-> "idle", vars |-> NoVars, result |-> pending, met |-> FALSE]]
    /\ missing = {}
    /\ operation = "none"
    /\ done = {}
    /\ segsAB = <<>>
    /\ segsBA = <<>>
    /\ segsAA = <<>>
    /\ result = pending
    /\ resultSwapped = pending
    /\ group = <<>>
    /\ emitted = <<>>

\* what the array holds
ContentOf(ref) ==
    IF ref.array = "A" THEN Known(soupA)
    ELSE IF ref.array = "B" THEN Known(soupB)
    ELSE ref.content

\* repairMesh(soup, config) is called and runs to its first await (lines 36-53)
InvokeRepairMesh ==
    \E n \in Invocations :
        /\ ret[n].pc = "idle"
        /\ ret' = [m \in Invocations |->
                     [pc |-> IF m = n THEN "dedup" ELSE ret[m].pc,
                      vars |-> IF m = Slot(n)
                               THEN [NoVars EXCEPT !.soup = InputArray(call[n].input)]
                               ELSE ret[m].vars,
                      result |-> ret[m].result,
                      met |-> ret[m].met]]
        /\ UNCHANGED <<call, soups>>

\* the timer of an invocation fires: it goes on from its await to the next one,
\* or to its return, while the other invocation is where it is
ResumeInvocation ==
    \E n \in Invocations :
        /\ ret[n].pc \in Phases
        /\ With3(RunPhase(ret[n].pc, ret[Slot(n)].vars, ContentOf(ret[Slot(n)].vars.soup),
                          call[n].config, call[n].found),
                 AfterPhase(ret[n].pc, call[n].config),
                 ret[Slot(n)].vars.soup.array,
                 LAMBDA out, next, named :
              /\ soupA' = IF out.wrote /\ named = "A" THEN out.input ELSE soupA
              /\ soupB' = IF out.wrote /\ named = "B" THEN out.input ELSE soupB
              /\ ret' = [m \in Invocations |->
                           [pc |-> IF m # n THEN ret[m].pc
                                   ELSE IF next = "complete" THEN "resolved" ELSE next,
                            vars |-> IF m = Slot(n) THEN out.vars ELSE ret[m].vars,
                            result |-> IF m = n /\ next = "complete"
                                       THEN ResultOf(out.vars,
                                                     IF out.vars.soup.array = "own"
                                                     THEN out.vars.soup.content
                                                     ELSE ContentOf(out.vars.soup),
                                                     call[n].config)
                                       ELSE ret[m].result,
                            met |-> IF m = n THEN ret[m].met \/ \E o \in Invocations \ {n} :
                                                                  ret[o].pc \in Phases
                                    ELSE ret[m].met]])
        /\ UNCHANGED <<call, missing, operation, done, segsAB, segsBA, segsAA,
                       result, resultSwapped, group, emitted>>

NextDuo == InvokeRepairMesh \/ ResumeInvocation

SpecDuo == InitDuo /\ [][NextDuo]_vars

\* what an invocation returns when it runs from phase to its return with no
\* other invocation about
RECURSIVE RunAlone(_, _, _, _)
RunAlone(phase, v, config, found) ==
    With2(RunPhase(phase, v, ContentOf(v.soup), config, found), AfterPhase(phase, config),
          LAMBDA out, next :
             IF next = "complete"
             THEN ResultOf(out.vars, ContentOf(out.vars.soup), config)
             ELSE RunAlone(next, out.vars, config, found))

====
